---------------------------- MODULE Spec2Model ----------------------------
(***************************************************************************)
(* A model of the media-library API gateway (Hono worker over D1 and R2).  *)
(* Each subsystem has its own specification over the shared variables:     *)
(*   SpecAuth        session gate, login, logout      (auth.ts, index.ts)  *)
(*   SpecImage       poster/fanart id aliasing         (serveMovieImage)   *)
(*   SpecWhere       buildMovieWhereClauseAndParams    (dbUtils.ts)        *)
(*   SpecLike        like / unlike                     (movieApi.ts)       *)
(*   SpecItems       GET /items pagination             (movieApi.ts)       *)
(*   SpecRelated     precomputed_related blending      (movieApi.ts)       *)
(*   SpecCollections POST /movie_collections           (movie API copy)    *)
(*   SpecDetail      GET /items/:item_id_or_num        (movieApi.ts)       *)
(*   SpecManga       POST /manga_item/:id/favorite     (manga API)         *)
(*   SpecStream      GET /stream/:item_id_or_num       (movieApi.ts)       *)
(*   SpecErrors      app.onError, app.notFound         (index.ts)          *)
(*   SpecParse       parseJsonField                    (dbUtils.ts)        *)
(*   SpecMapping     movieRowToDict                    (dbUtils.ts)        *)
(*   SpecConcurrent  row mappings under Promise.all    (movieApi.ts)       *)
(*   SpecFrame       every handler's writes            (both APIs)         *)
(*   SpecNarrow      the filter predicate over rows    (dbUtils.ts)        *)
(*   SpecFailure     GET /items with failing queries   (movieApi.ts)       *)
(*   SpecRace        concurrent like / unlike          (movieApi.ts)       *)
(*   SpecSession     tokens over logins and logouts    (auth.ts, index.ts) *)
(*   SpecSort        ORDER BY of GET /items            (movieApi.ts)       *)
(*   SpecAppendix    GET /mangas, appendices of an item (manga API)        *)
(* Strings of the program are TLA+ strings; a character of s is            *)
(* SubSeq(s, i, i).                                                        *)
(***************************************************************************)
EXTENDS Integers, Sequences, FiniteSets, TLC

VARIABLES
    env,        \* the worker's bindings (c.env)
    now,        \* the clock read by the JWT verification
    jar,        \* the client's auth_session cookie
    authLast,   \* the last request answered by the app and its response
    movies,     \* table movies: id -> row
    bucket,     \* the R2 bucket: the set of keys that hold an object
    chain,      \* the image requests a client issued following redirects
    imgResp,    \* the response to the last request of chain
    argsDict,   \* the query dictionary handed to the predicate builder
    built,      \* what buildMovieWhereClauseAndParams returned for argsDict
    likeLast,   \* the last like/unlike request and its response
    itemsQuery, \* the paging client's query (Limit, SortBy, SortOrder, filter)
    pages,      \* the pages the paging client has fetched so far
    prm,        \* table precomputed_related_movies
    relLast,    \* the last precomputed_related request and its response
    movie_collections, \* table movie_collections
    reqs,       \* the POST /movie_collections requests in flight
    collLog,    \* the answered POST /movie_collections requests
    detLast, \* the last GET /items/:item_id_or_num request and its response
    mangas, \* table mangas: id -> row
    favLast, \* the last POST /manga_item/:item_id/favorite request and its response
    streamLast, \* the last GET /stream/:item_id_or_num request and its response
    errLast, \* the last request that ended in app.onError or app.notFound, and its response
    pjIn, \* the value handed to parseJsonField
    pjOut, \* what parseJsonField returned for pjIn
    mapIn, \* a row handed to movieRowToDict, with table actors_info
    mapOut, \* what movieRowToDict returned for mapIn
    mmc, \* table movie_movie_collections joined with movie_collections: movie id -> collections
    mapRows, \* the rows the data query of GET /items returned, in its order
    tasks, \* the per-row mappings started by .map: position and result
    doneOrder, \* the indices of the mappings in the order they completed
    itemsOut, \* the Items of the response, once Promise.all resolved
    db0, \* the database as it was before the first request
    frameLast, \* method and route of the last request served
    filt, \* the filter set of the last query of the narrowing client
    matched, \* the ids of the rows the predicate built for filt selects
    filtPrev, \* the filter set and the hits before the last key was added
    plan, \* the rows of the data query and which backend calls fail when issued
    hpc, \* where the GET /items handler stands
    calls, \* the backend calls issued so far, in order
    subs, \* the state of the per-row mappings
    itemsResp, \* the response of GET /items
    likers, \* the concurrent like/unlike requests on one movie, each with its position
    lastUpdate, \* the flag set by the UPDATE statement that executed last
    issued, \* the tokens POST /login has set so far (kept by the client, not by the server)
    logouts, \* the number of GET /logout requests served so far
    sortIn, \* the query of a GET /items request and the build that serves it
    sortOut, \* the ORDER BY the handler interpolated for sortIn
    manga_collections, \* table manga_collections: set of <<manga_id, collection_id>>
    mangaLast \* the last GET /mangas or GET /manga_item/:item_id request and its response

authVars == <<now, jar, authLast>>
imageVars == <<bucket, chain, imgResp>>
whereVars == <<argsDict, built>>
likeVars == <<likeLast>>
itemsVars == <<itemsQuery, pages>>
relVars == <<prm, relLast>>
collVars == <<movie_collections, reqs, collLog>>
detailVars == <<detLast>>
mangaVars == <<mangas, favLast>>
streamVars == <<streamLast>>
errorsVars == <<errLast>>
parseVars == <<pjIn, pjOut>>
mappingVars == <<mapIn, mapOut>>
concVars == <<mmc, mapRows, tasks, doneOrder, itemsOut>>
frameVars == <<db0, frameLast>>
narrowVars == <<filt, matched, filtPrev>>
failVars == <<plan, hpc, calls, subs, itemsResp>>
raceVars == <<likers, lastUpdate>>
sessVars == <<issued, logouts>>
sortVars == <<sortIn, sortOut>>
appxVars == <<manga_collections, mangaLast>>
vars == <<env, now, jar, authLast, movies, bucket, chain, imgResp, argsDict,
          built, likeLast, itemsQuery, pages, prm, relLast,
          movie_collections, reqs, collLog,
          detLast,
          mangas, favLast,
          streamLast,
          errLast,
          pjIn, pjOut,
          mapIn, mapOut,
          mmc, mapRows, tasks, doneOrder, itemsOut,
          db0, frameLast,
          filt, matched, filtPrev,
          plan, hpc, calls, subs, itemsResp,
          likers, lastUpdate,
          issued, logouts,
          sortIn, sortOut,
          manga_collections, mangaLast>>

\* what the actions of one subsystem leave alone
authFrame == <<env, movies, imageVars, whereVars, likeVars, itemsVars, relVars, collVars, detailVars, mangaVars, streamVars, errorsVars, parseVars, mappingVars, concVars, frameVars, narrowVars, failVars, raceVars, sessVars, sortVars, appxVars>>
imageFrame == <<env, movies, authVars, whereVars, likeVars, itemsVars, relVars, collVars, detailVars, mangaVars, streamVars, errorsVars, parseVars, mappingVars, concVars, frameVars, narrowVars, failVars, raceVars, sessVars, sortVars, appxVars>>
whereFrame == <<env, movies, authVars, imageVars, likeVars, itemsVars, relVars, collVars, detailVars, mangaVars, streamVars, errorsVars, parseVars, mappingVars, concVars, frameVars, narrowVars, failVars, raceVars, sessVars, sortVars, appxVars>>
likeFrame == <<env, authVars, imageVars, whereVars, itemsVars, relVars, collVars, detailVars, mangaVars, streamVars, errorsVars, parseVars, mappingVars, concVars, frameVars, narrowVars, failVars, raceVars, sessVars, sortVars, appxVars>>
itemsFrame == <<env, movies, authVars, imageVars, whereVars, likeVars, relVars, collVars, detailVars, mangaVars, streamVars, errorsVars, parseVars, mappingVars, concVars, frameVars, narrowVars, failVars, raceVars, sessVars, sortVars, appxVars>>
relFrame == <<env, movies, authVars, imageVars, whereVars, likeVars, itemsVars, collVars, detailVars, mangaVars, streamVars, errorsVars, parseVars, mappingVars, concVars, frameVars, narrowVars, failVars, raceVars, sessVars, sortVars, appxVars>>
collFrame == <<env, movies, authVars, imageVars, whereVars, likeVars, itemsVars, relVars, detailVars, mangaVars, streamVars, errorsVars, parseVars, mappingVars, concVars, frameVars, narrowVars, failVars, raceVars, sessVars, sortVars, appxVars>>
detailFrame == <<env, movies, authVars, imageVars, whereVars, likeVars, itemsVars, relVars, collVars, mangaVars, streamVars, errorsVars, parseVars, mappingVars, concVars, frameVars, narrowVars, failVars, raceVars, sessVars, sortVars, appxVars>>
mangaFrame == <<env, movies, authVars, imageVars, whereVars, likeVars, itemsVars, relVars, collVars, detailVars, streamVars, errorsVars, parseVars, mappingVars, concVars, frameVars, narrowVars, failVars, raceVars, sessVars, sortVars, appxVars>>
streamFrame == <<env, movies, authVars, imageVars, whereVars, likeVars, itemsVars, relVars, collVars, detailVars, mangaVars, errorsVars, parseVars, mappingVars, concVars, frameVars, narrowVars, failVars, raceVars, sessVars, sortVars, appxVars>>
errorsFrame == <<env, movies, authVars, imageVars, whereVars, likeVars, itemsVars, relVars, collVars, detailVars, mangaVars, streamVars, parseVars, mappingVars, concVars, frameVars, narrowVars, failVars, raceVars, sessVars, sortVars, appxVars>>
parseFrame == <<env, movies, authVars, imageVars, whereVars, likeVars, itemsVars, relVars, collVars, detailVars, mangaVars, streamVars, errorsVars, mappingVars, concVars, frameVars, narrowVars, failVars, raceVars, sessVars, sortVars, appxVars>>
mappingFrame == <<env, movies, authVars, imageVars, whereVars, likeVars, itemsVars, relVars, collVars, detailVars, mangaVars, streamVars, errorsVars, parseVars, concVars, frameVars, narrowVars, failVars, raceVars, sessVars, sortVars, appxVars>>
concFrame == <<env, movies, authVars, imageVars, whereVars, likeVars, itemsVars, relVars, collVars, detailVars, mangaVars, streamVars, errorsVars, parseVars, mappingVars, frameVars, narrowVars, failVars, raceVars, sessVars, sortVars, appxVars>>
frameFrame == <<env, movies, authVars, imageVars, whereVars, likeVars, itemsVars, relVars, collVars, detailVars, mangaVars, streamVars, errorsVars, parseVars, mappingVars, concVars, narrowVars, failVars, raceVars, sessVars, sortVars, appxVars>>
narrowFrame == <<env, movies, authVars, imageVars, whereVars, likeVars, itemsVars, relVars, collVars, detailVars, mangaVars, streamVars, errorsVars, parseVars, mappingVars, concVars, frameVars, failVars, raceVars, sessVars, sortVars, appxVars>>
failFrame == <<env, movies, authVars, imageVars, whereVars, likeVars, itemsVars, relVars, collVars, detailVars, mangaVars, streamVars, errorsVars, parseVars, mappingVars, concVars, frameVars, narrowVars, raceVars, sessVars, sortVars, appxVars>>
raceFrame == <<env, authVars, imageVars, whereVars, likeVars, itemsVars, relVars, collVars, detailVars, mangaVars, streamVars, errorsVars, parseVars, mappingVars, concVars, frameVars, narrowVars, failVars, sessVars, sortVars, appxVars>>
\* what the session specification, which runs the session gate, leaves alone
sessionFrame == <<env, movies, imageVars, whereVars, likeVars, itemsVars, relVars, collVars, detailVars, mangaVars, streamVars, errorsVars, parseVars, mappingVars, concVars, frameVars, narrowVars, failVars, raceVars, sortVars, appxVars>>
sortFrame == <<env, movies, authVars, imageVars, whereVars, likeVars, itemsVars, relVars, collVars, detailVars, mangaVars, streamVars, errorsVars, parseVars, mappingVars, concVars, frameVars, narrowVars, failVars, raceVars, sessVars, appxVars>>
appxFrame == <<env, movies, authVars, imageVars, whereVars, likeVars, itemsVars, relVars, collVars, detailVars, mangaVars, streamVars, errorsVars, parseVars, mappingVars, concVars, frameVars, narrowVars, failVars, raceVars, sessVars, sortVars>>

-----------------------------------------------------------------------------
(* JavaScript and SQL values *)

\* SQL NULL / JS null or undefined in a string-valued place.  No string of the
\* model's inputs equals it.
NULL == "<null>"

Char(s, i) == SubSeq(s, i, i)
Rest(s) == SubSeq(s, 2, Len(s))
Drop(s, n) == SubSeq(s, n + 1, Len(s))

\* String.prototype.startsWith
StartsWith(s, p) == Len(s) >= Len(p) /\ SubSeq(s, 1, Len(p)) = p

Digits == "0123456789"
IsDigit(c) == \E i \in 1..10 : Char(Digits, i) = c
DigitVal(c) == (CHOOSE i \in 1..10 : Char(Digits, i) = c) - 1

RECURSIVE SkipWs(_)
SkipWs(s) == IF Len(s) > 0 /\ Char(s, 1) = " " THEN SkipWs(Rest(s)) ELSE s

RECURSIVE ParseDigits(_, _, _)
ParseDigits(s, acc, seen) ==
    IF Len(s) > 0 /\ IsDigit(Char(s, 1))
    THEN ParseDigits(Rest(s), acc * 10 + DigitVal(Char(s, 1)), TRUE)
    ELSE [nan |-> ~seen, v |-> acc]

\* parseInt(s, 10): leading blanks, an optional sign, then the longest run of
\* digits; NaN when there is no digit.  What follows the digits is ignored.
parseInt(s) ==
    LET t == SkipWs(s)
        neg == Len(t) > 0 /\ Char(t, 1) = "-"
        signed == Len(t) > 0 /\ Char(t, 1) \in {"-", "+"}
        r == ParseDigits(IF signed THEN Rest(t) ELSE t, 0, FALSE)
    IN  [nan |-> r.nan, v |-> IF neg THEN 0 - r.v ELSE r.v]

\* String.prototype.trim (blanks only)
RECURSIVE TrimRight(_)
TrimRight(s) ==
    IF Len(s) > 0 /\ Char(s, Len(s)) = " "
    THEN TrimRight(SubSeq(s, 1, Len(s) - 1)) ELSE s
trim(s) == TrimRight(SkipWs(s))

\* s.split(sep) for a one-character separator
RECURSIVE SplitAcc(_, _, _, _)
SplitAcc(s, sep, cur, acc) ==
    IF Len(s) = 0 THEN Append(acc, cur)
    ELSE IF Char(s, 1) = sep THEN SplitAcc(Rest(s), sep, "", Append(acc, cur))
         ELSE SplitAcc(Rest(s), sep, cur \o Char(s, 1), acc)
split(s, sep) == SplitAcc(s, sep, "", <<>>)

\* parts.join(sep)
RECURSIVE join(_, _)
join(parts, sep) ==
    IF Len(parts) = 0 THEN ""
    ELSE IF Len(parts) = 1 THEN parts[1]
         ELSE parts[1] \o sep \o join(Tail(parts), sep)

\* the number of occurrences of character c in s
CountChar(s, c) == Cardinality({i \in 1..Len(s) : Char(s, i) = c})

Range(f) == {f[i] : i \in DOMAIN f}

-----------------------------------------------------------------------------
(* JSON text and values: JSON.parse, JSON.stringify *)

\* JavaScript values as tagged records
JStr(s) == [t |-> "string", s |-> s]
JNum(s) == [t |-> "number", s |-> s]
JLit(s) == [t |-> "literal", s |-> s]
JArr(a) == [t |-> "array", a |-> a]
JObj(k, a) == [t |-> "object", k |-> k, a |-> a]
JNull == JLit("null")
Undefined == [t |-> "undefined"]

Quote == "\""
Backslash == "\\"

ParseFail == [ok |-> FALSE, v |-> JNull, rest |-> ""]
Parsed(v, rest) == [ok |-> TRUE, v |-> v, rest |-> rest]

\* the characters of a string literal after its opening quote; the escapes
\* \" and \\ are the ones JSON.stringify writes for the model's alphabet
RECURSIVE ScanString(_, _)
ScanString(s, acc) ==
    IF Len(s) = 0 THEN ParseFail
    ELSE IF Char(s, 1) = Quote THEN Parsed(JStr(acc), Rest(s))
    ELSE IF Char(s, 1) = Backslash
         THEN IF Len(s) >= 2 /\ Char(s, 2) \in {Quote, Backslash}
              THEN ScanString(SubSeq(s, 3, Len(s)), acc \o Char(s, 2))
              ELSE ParseFail
         ELSE ScanString(Rest(s), acc \o Char(s, 1))

\* the longest run of digits at the head of s
RECURSIVE DigitRun(_)
DigitRun(s) ==
    IF Len(s) > 0 /\ IsDigit(Char(s, 1)) THEN Char(s, 1) \o DigitRun(Rest(s)) ELSE ""

\* an integer literal: -? (0 | [1-9][0-9]*)
ScanNumber(s) ==
    LET neg == StartsWith(s, "-")
        body == IF neg THEN Rest(s) ELSE s
        run == IF StartsWith(body, "0") THEN "0" ELSE DigitRun(body)
    IN  IF run = "" THEN ParseFail
        ELSE Parsed(JNum((IF neg THEN "-" ELSE "") \o run),
                    SubSeq(body, Len(run) + 1, Len(body)))

RECURSIVE ParseValue(_)
RECURSIVE ParseElements(_, _)
RECURSIVE ParseMembers(_, _, _)
ParseValue(text) ==
    LET s == SkipWs(text)
    IN  IF Len(s) = 0 THEN ParseFail
        ELSE IF Char(s, 1) = Quote THEN ScanString(Rest(s), "")
        ELSE IF Char(s, 1) = "[" THEN
            IF StartsWith(SkipWs(Rest(s)), "]")
            THEN Parsed(JArr(<<>>), Rest(SkipWs(Rest(s))))
            ELSE ParseElements(Rest(s), <<>>)
        ELSE IF Char(s, 1) = "{" THEN
            IF StartsWith(SkipWs(Rest(s)), "}")
            THEN Parsed(JObj(<<>>, <<>>), Rest(SkipWs(Rest(s))))
            ELSE ParseMembers(Rest(s), <<>>, <<>>)
        ELSE IF StartsWith(s, "true") THEN Parsed(JLit("true"), SubSeq(s, 5, Len(s)))
        ELSE IF StartsWith(s, "false") THEN Parsed(JLit("false"), SubSeq(s, 6, Len(s)))
        ELSE IF StartsWith(s, "null") THEN Parsed(JNull, SubSeq(s, 5, Len(s)))
        ELSE ScanNumber(s)

\* value (, value)* ]
ParseElements(s, acc) ==
    LET e == ParseValue(s)
        after == SkipWs(e.rest)
    IN  IF ~e.ok THEN ParseFail
        ELSE IF StartsWith(after, "]") THEN Parsed(JArr(Append(acc, e.v)), Rest(after))
        ELSE IF StartsWith(after, ",") THEN ParseElements(Rest(after), Append(acc, e.v))
        ELSE ParseFail

\* string : value (, string : value)* }
ParseMembers(text, keys, vals) ==
    LET s == SkipWs(text)
        k == IF StartsWith(s, Quote) THEN ScanString(Rest(s), "") ELSE ParseFail
        colon == SkipWs(k.rest)
        e == IF k.ok /\ StartsWith(colon, ":") THEN ParseValue(Rest(colon)) ELSE ParseFail
        after == SkipWs(e.rest)
    IN  IF ~e.ok THEN ParseFail
        ELSE IF StartsWith(after, "}")
             THEN Parsed(JObj(Append(keys, k.v.s), Append(vals, e.v)), Rest(after))
        ELSE IF StartsWith(after, ",")
             THEN ParseMembers(Rest(after), Append(keys, k.v.s), Append(vals, e.v))
        ELSE ParseFail

\* JSON.parse(text): the value, or throws (a SyntaxError) when text is not one
\* JSON value followed by blanks only
JSONparse(text) ==
    LET r == ParseValue(text)
    IN  IF r.ok /\ SkipWs(r.rest) = "" THEN [throws |-> FALSE, v |-> r.v]
        ELSE [throws |-> TRUE, v |-> JNull]

\* JSON.stringify of a string: quotes and backslashes escaped
RECURSIVE Escape(_)
Escape(s) ==
    IF s = "" THEN ""
    ELSE (IF Char(s, 1) \in {Quote, Backslash} THEN Backslash ELSE "") \o Char(s, 1)
         \o Escape(Rest(s))

\* JSON.stringify(v)
RECURSIVE JSONstringify(_)
JSONstringify(v) ==
    IF v.t = "string" THEN Quote \o Escape(v.s) \o Quote
    ELSE IF v.t \in {"number", "literal"} THEN v.s
    ELSE IF v.t = "array"
         THEN "[" \o join([i \in 1..Len(v.a) |-> JSONstringify(v.a[i])], ",") \o "]"
    ELSE "{" \o join([i \in 1..Len(v.a) |->
                        Quote \o Escape(v.k[i]) \o Quote \o ":" \o JSONstringify(v.a[i])], ",")
         \o "}"

\* value.split(',').map(s => s.trim()).filter(s => s)
SplitTokens(s) ==
    LET tokens == split(s, ",")
        kept == SelectSeq([i \in 1..Len(tokens) |-> trim(tokens[i])], LAMBDA x : x # "")
    IN  [i \in 1..Len(kept) |-> JStr(kept[i])]

\* the decoding without JSON.parse: every string is split at its commas
parseJsonFieldSplitOnly(value) ==
    IF value.t = "string" /\ value.s # "" THEN SplitTokens(value.s)
    ELSE IF value.t = "array" THEN value.a
    ELSE <<>>

\* dbUtils.ts parseJsonField(value): always an array
parseJsonField(value) ==
    IF value.t = "string" /\ value.s # ""
    THEN LET parsed == JSONparse(value.s)
         IN  IF ~parsed.throws
             THEN IF parsed.v.t = "array" THEN parsed.v.a ELSE <<parsed.v>>
             ELSE SplitTokens(value.s)
    ELSE IF value.t = "array" THEN value.a
    ELSE <<>>

-----------------------------------------------------------------------------
(* Session gate: auth.ts, index.ts *)

COOKIE_NAME == "auth_session"
LOGIN_PATH == "/login"

MaxTime == 3
\* a JWT payload without the optional exp claim
NoExp == 0

Keys == {"s3cret", "other"}

\* A cookie value.  kind "jwt" is a well-formed token whose signature was made
\* with key; "garbage" is any other non-empty string; "empty" is the empty
\* string; "none" is no cookie.
Token(kind, key, loggedIn, exp) ==
    [kind |-> kind, key |-> key, loggedIn |-> loggedIn, exp |-> exp]
NoCookie == Token("none", "", FALSE, NoExp)
EmptyCookie == Token("empty", "", FALSE, NoExp)
Garbage == Token("garbage", "", FALSE, NoExp)
Tokens ==
    {Token("jwt", k, l, e) : k \in Keys, l \in BOOLEAN, e \in {NoExp} \cup 1..MaxTime}
CookieValues == Tokens \cup {NoCookie, EmptyCookie, Garbage}

\* typeof c.env.SESSION_SECRET_KEY === 'string' && length > 0
SecretConfigured(e) == e.SESSION_SECRET_KEY # NULL /\ e.SESSION_SECRET_KEY # ""

\* sign with an exp claim added to the payload
signExpiring(payload, secret) == Token("jwt", secret, payload.loggedIn, 2)

\* hono/jwt sign(payload, secret): the payload signed with the secret
sign(payload, secret) == Token("jwt", secret, payload.loggedIn, payload.exp)

\* hono/jwt verify(token, secret): the payload, or an exception for a
\* malformed token, a signature made with another key, an unusable secret or
\* an exp that has passed.
verify(token, secret, t) ==
    IF token.kind # "jwt" \/ secret = NULL \/ secret = "" \/ token.key # secret
       \/ (token.exp # NoExp /\ token.exp <= t)
    THEN [threw |-> TRUE, payload |-> [loggedIn |-> FALSE, exp |-> NoExp]]
    ELSE [threw |-> FALSE, payload |-> [loggedIn |-> token.loggedIn, exp |-> token.exp]]

\* generateJwt: throws when the secret is not a non-empty string
generateJwtUnchecked(e) ==
    [threw |-> FALSE, token |-> sign([loggedIn |-> TRUE, exp |-> NoExp], e.SESSION_SECRET_KEY)]
generateJwt(e) ==
    IF ~SecretConfigured(e)
    THEN [threw |-> TRUE, token |-> NoCookie]
    ELSE [threw |-> FALSE,
          token |-> sign([loggedIn |-> TRUE, exp |-> NoExp], e.SESSION_SECRET_KEY)]

\* verifyJwt: the decoded payload, or null when verify throws
verifyJwt(e, token, t) ==
    LET r == verify(token, e.SESSION_SECRET_KEY, t)
    IN  IF r.threw THEN [null |-> TRUE, payload |-> r.payload]
        ELSE [null |-> FALSE, payload |-> r.payload]

\* A response: status, kind of body, Location of a redirect, the Set-Cookie
\* it carries ("set" with a token, "delete", or "keep" for none), and the route
\* handler that ran behind the middleware ("none" when none did).
Response(status, kind, location, cookie, token, handler) ==
    [status |-> status, kind |-> kind, location |-> location,
     cookie |-> cookie, token |-> token, handler |-> handler]

allowedPaths == <<LOGIN_PATH, "/login", "/static/", "/favicon.ico">>

\* allowedPaths.some(allowedPath => path.startsWith(allowedPath))
IsAllowedPath(path) == \E i \in DOMAIN allowedPaths : StartsWith(path, allowedPaths[i])

IsApiPath(path) == StartsWith(path, "/api_movies/") \/ StartsWith(path, "/api/")

\* The routes registered after app.use('*', requireLogin), by mount point.
SpaPaths == {"/", "/movies_home", "/manga_home", "/series_view_page",
             "/video_detail.html"}
RouteOf(path) ==
    IF path = "/logout" THEN "logout"
    ELSE IF path \in SpaPaths THEN "spa"
    ELSE IF StartsWith(path, "/static/") THEN "static"
    ELSE IF StartsWith(path, "/api/") THEN "api"
    ELSE IF StartsWith(path, "/api_movies/") THEN "api_movies"
    ELSE IF StartsWith(path, "/data/manga_images/") THEN "manga_images"
    ELSE IF path = "/login" THEN "login"
    ELSE "notFound"

\* the routes with a logout handler that redirects and leaves the cookie
RunHandlerKeepCookie(path) ==
    LET h == RouteOf(path)
    IN  IF h = "logout" THEN Response(303, "redirect", "/login", "keep", NoCookie, h)
        ELSE IF h = "notFound"
             THEN Response(404, IF StartsWith(path, "/api") THEN "json" ELSE "text",
                           "", "keep", NoCookie, h)
             ELSE Response(200, "body", "", "keep", NoCookie, h)

\* next(): the handler of the matched route answers
RunHandler(path) ==
    LET h == RouteOf(path)
    IN  IF h = "logout" THEN Response(303, "redirect", "/login", "delete", NoCookie, h)
        ELSE IF h = "notFound"
             THEN Response(404, IF StartsWith(path, "/api") THEN "json" ELSE "text",
                           "", "keep", NoCookie, h)
             ELSE Response(200, "body", "", "keep", NoCookie, h)

\* !payload || !payload.loggedIn
SessionRejected(p) == p.null \/ ~p.payload.loggedIn

Unauthorized(path, cookie) ==
    IF IsApiPath(path)
    THEN Response(401, "json", "", cookie, NoCookie, "none")
    ELSE Response(307, "redirect", LOGIN_PATH, cookie, NoCookie, "none")

\* requireLogin(c, next) for a request of path carrying cookie token at time t
requireLoginAnyPayload(e, path, token, t) ==
    IF IsAllowedPath(path) THEN RunHandler(path)
    ELSE IF token.kind \in {"none", "empty"} THEN Unauthorized(path, "keep")
    ELSE IF verifyJwt(e, token, t).null THEN Unauthorized(path, "delete")
    ELSE RunHandler(path)
requireLogin(e, path, token, t) ==
    IF IsAllowedPath(path) THEN RunHandler(path)
    ELSE IF token.kind \in {"none", "empty"} THEN Unauthorized(path, "keep")
    ELSE IF SessionRejected(verifyJwt(e, token, t)) THEN Unauthorized(path, "delete")
    ELSE RunHandler(path)

\* app.post('/login'): registered before the middleware.  form is the parsed
\* form data, a function whose domain holds "login_code" when it was sent.
PostLoginResponse(e, form) ==
    IF "login_code" \in DOMAIN form /\ form["login_code"] = e.LOGIN_CODE
    THEN LET g == generateJwt(e)
         IN  IF g.threw
             THEN Response(500, "error", "", "keep", NoCookie, "postLogin")
             ELSE Response(303, "redirect", "/", "set", g.token, "postLogin")
    ELSE Response(303, "redirect", "/login?error", "keep", NoCookie, "postLogin")

\* what the browser does with the response's Set-Cookie
StoreCookie(old, resp) ==
    IF resp.cookie = "set" THEN resp.token
    ELSE IF resp.cookie = "delete" THEN NoCookie
    ELSE old

Paths == {"/login", "/loginx", "/static/app.js", "/favicon.ico", "/", "/movies_home",
          "/logout", "/api", "/api/mangas", "/api_movies/items", "/apix/y",
          "/data/manga_images/a/1.webp", "/secret"}
LoginCodes == {"open-sesame", "guess", ""}
Forms == {<<>>} \cup {[k \in {"login_code"} |-> v] : v \in LoginCodes}

\* The bindings of a deployment.  The three related-items settings are
\* optional strings (NULL: unset).
DefaultEnv ==
    [LOGIN_CODE |-> "open-sesame", SESSION_SECRET_KEY |-> "s3cret",
     MOVIE_ASSETS_R2_BASE_PREFIX |-> "assets", MOVIES_BUCKET |-> TRUE,
     IS_LOCAL_DEV |-> NULL,
     MAX_PRIMARY_RELATED_COUNT |-> NULL, NUM_RANDOM_GENRE_PICKS |-> NULL,
     MAX_GENRE_CANDIDATES |-> NULL]
Envs == {[DefaultEnv EXCEPT !.SESSION_SECRET_KEY = k] : k \in {"s3cret", "", NULL}}

NoRequest == [op |-> "none", path |-> "", form |-> <<>>, token |-> NoCookie, at |-> 0,
              resp |-> Response(0, "", "", "keep", NoCookie, "none")]

\* A subsystem at rest: the values its variables keep while another subsystem
\* is the one running
AtRest(group) ==
    IF group = "auth" THEN now = 1 /\ jar = "" /\ authLast = <<>>
    ELSE IF group = "image" THEN bucket = {} /\ chain = <<>> /\ imgResp = <<>>
    ELSE IF group = "where" THEN argsDict = <<>> /\ built = <<>>
    ELSE IF group = "like" THEN likeLast = <<>>
    ELSE IF group = "items" THEN itemsQuery = <<>> /\ pages = <<>>
    ELSE IF group = "related" THEN prm = {} /\ relLast = <<>>
    ELSE IF group = "collections" THEN movie_collections = {} /\ reqs = <<>> /\ collLog = <<>>
    ELSE IF group = "detail" THEN detLast = <<>>
    ELSE IF group = "manga" THEN mangas = <<>> /\ favLast = <<>>
    ELSE IF group = "stream" THEN streamLast = <<>>
    ELSE IF group = "errors" THEN errLast = <<>>
    ELSE IF group = "parse" THEN pjIn = <<>> /\ pjOut = <<>>
    ELSE IF group = "mapping" THEN mapIn = <<>> /\ mapOut = <<>>
    ELSE IF group = "conc" THEN mmc = <<>> /\ mapRows = <<>> /\ tasks = <<>> /\ doneOrder = <<>> /\ itemsOut = <<>>
    ELSE IF group = "frame" THEN db0 = <<>> /\ frameLast = <<>>
    ELSE IF group = "narrow" THEN filt = <<>> /\ matched = <<>> /\ filtPrev = <<>>
    ELSE IF group = "fail" THEN plan = <<>> /\ hpc = "" /\ calls = <<>> /\ subs = <<>> /\ itemsResp = <<>>
    ELSE IF group = "race" THEN likers = <<>> /\ lastUpdate = <<>>
    ELSE IF group = "sess" THEN issued = <<>> /\ logouts = <<>>
    ELSE IF group = "sort" THEN sortIn = <<>> /\ sortOut = <<>>
    ELSE manga_collections = {} /\ mangaLast = <<>>

AuthInit ==
    /\ env \in Envs
    /\ movies = <<>>
    /\ now = 1
    /\ jar = NoCookie
    /\ authLast = NoRequest
    /\ AtRest("image") /\ AtRest("where") /\ AtRest("like")
    /\ AtRest("items") /\ AtRest("related") /\ AtRest("collections")
    /\ AtRest("detail")
    /\ AtRest("manga")
    /\ AtRest("stream")
    /\ AtRest("errors")
    /\ AtRest("parse")
    /\ AtRest("mapping")
    /\ AtRest("conc")
    /\ AtRest("frame")
    /\ AtRest("narrow")
    /\ AtRest("fail")
    /\ AtRest("race")
    /\ AtRest("sess")
    /\ AtRest("sort")
    /\ AtRest("appx")

\* POST /login with a form
PostLogin ==
    \E form \in Forms :
        LET resp == PostLoginResponse(env, form)
        IN  /\ authLast' = [op |-> "postLogin", path |-> "/login", form |-> form,
                            token |-> jar, at |-> now, resp |-> resp]
            /\ jar' = StoreCookie(jar, resp)
            /\ UNCHANGED <<now, authFrame>>

\* any other request; the browser sends the cookie it holds
Request ==
    \E path \in Paths :
        LET resp == requireLogin(env, path, jar, now)
        IN  /\ authLast' = [op |-> "request", path |-> path, form |-> <<>>,
                            token |-> jar, at |-> now, resp |-> resp]
            /\ jar' = StoreCookie(jar, resp)
            /\ UNCHANGED <<now, authFrame>>

\* the client presents a cookie of its own making (an old, foreign or forged one)
PresentCookie ==
    /\ \E tok \in CookieValues : jar' = tok
    /\ UNCHANGED <<now, authLast, authFrame>>

Tick ==
    /\ now < MaxTime
    /\ now' = now + 1
    /\ UNCHANGED <<jar, authLast, authFrame>>

AuthNext == PostLogin \/ Request \/ PresentCookie \/ Tick

-----------------------------------------------------------------------------
(* Table movies and the R2 bucket *)

\* SQL NULL in a number-valued column
NullNum == -1

\* A row of movies.  uniqueid_num and studio are text or NULL, premiered is a
\* number (a date in the program) or NullNum, is_liked is 0 or 1.
Row(id, uid, liked, premiered, studio, rating) ==
    [id |-> id, uniqueid_num |-> uid, is_liked |-> liked, premiered |-> premiered,
     studio |-> studio, rating |-> rating]

\* the ids of the rows of table t, in rowid order
RECURSIVE SortedIds(_)
SortedIds(S) ==
    IF S = {} THEN <<>>
    ELSE LET m == CHOOSE x \in S : \A y \in S : x <= y
         IN  <<m>> \o SortedIds(S \ {m})
RowsOf(t) == [i \in 1..Cardinality(DOMAIN t) |-> t[SortedIds(DOMAIN t)[i]]]

\* SELECT ... FROM movies WHERE id = ? .first(): the row, or null
SelectById(t, n) ==
    IF n \in DOMAIN t THEN [null |-> FALSE, row |-> t[n]]
    ELSE [null |-> TRUE, row |-> Row(0, NULL, 0, NullNum, NULL, 0)]

\* SELECT ... FROM movies WHERE uniqueid_num = ? .first(): the first row in
\* rowid order whose uniqueid_num is not NULL and equals the parameter
SelectByUniqueId(t, u) ==
    LET hits == {i \in DOMAIN t : t[i].uniqueid_num # NULL /\ t[i].uniqueid_num = u}
    IN  IF hits = {} THEN [null |-> TRUE, row |-> Row(0, NULL, 0, NullNum, NULL, 0)]
        ELSE [null |-> FALSE, row |-> t[CHOOSE i \in hits : \A j \in hits : i <= j]]

\* key.replace(/\/\//g, '/'): every "//" found left to right becomes "/"
RECURSIVE ReplaceDoubleSlash(_)
ReplaceDoubleSlash(s) ==
    IF Len(s) < 2 THEN s
    ELSE IF SubSeq(s, 1, 2) = "//" THEN "/" \o ReplaceDoubleSlash(SubSeq(s, 3, Len(s)))
         ELSE Char(s, 1) \o ReplaceDoubleSlash(Rest(s))

\* serveFileFromR2(c, bucket, key): the object, or 404 when bucket.get is null
serveFileFromR2(b, key) ==
    IF key \in b
    THEN [status |-> 200, kind |-> "body", location |-> "", key |-> key]
    ELSE [status |-> 404, kind |-> "text", location |-> "", key |-> key]

-----------------------------------------------------------------------------
(* Poster / fanart: serveMovieImage *)

ImageTypes == {"poster", "fanart"}
ImageUrlPrefix(imageType) == "/api_movies/images/" \o imageType \o "/"

\* the storage key of step 2
ImageKey(e, effectiveId, imageType) ==
    ReplaceDoubleSlash(e.MOVIE_ASSETS_R2_BASE_PREFIX \o "/movies/movies_poster/"
                       \o split(effectiveId, "-")[1] \o "/" \o effectiveId
                       \o "_" \o imageType \o ".avif")

\* serveMovieImage(c, imageType) for route parameter movieIdOrNum
serveMovieImage(e, t, b, movieIdOrNum, imageType) ==
    LET n == parseInt(movieIdOrNum)
        dbRow == SelectById(t, n.v)
    IN  IF ~n.nan /\ (dbRow.null \/ dbRow.row.uniqueid_num = NULL
                      \/ dbRow.row.uniqueid_num = "")
        THEN [status |-> 404, kind |-> "text", location |-> "", key |-> ""]
        ELSE IF ~n.nan /\ dbRow.row.uniqueid_num # movieIdOrNum
        THEN [status |-> 301, kind |-> "redirect",
              location |-> ImageUrlPrefix(imageType) \o dbRow.row.uniqueid_num,
              key |-> ""]
        ELSE serveFileFromR2(b, ImageKey(e, movieIdOrNum, imageType))

MaxMovies == 2
MaxHops == 3
UniqueIds == {"1", "2", "ABC-1", "2XY-7"}
ImageParams == UniqueIds \cup {"3", "01"}

\* the tables of the image specification: any ids, any uniqueid_num
ImageTables ==
    UNION {[ids -> {Row(0, u, 0, NullNum, NULL, 0) : u \in UniqueIds \cup {NULL}}]
           : ids \in SUBSET (1..MaxMovies)}
WithIds(t) == [i \in DOMAIN t |-> [t[i] EXCEPT !.id = i]]

ImageInit ==
    /\ env = DefaultEnv
    /\ movies \in {WithIds(t) : t \in ImageTables}
    /\ bucket \in {{ImageKey(DefaultEnv, u, ty) : u \in S, ty \in ImageTypes}
                   : S \in SUBSET {"1", "ABC-1"}}
    /\ chain = <<>>
    /\ imgResp = [status |-> 0, kind |-> "", location |-> "", key |-> "", type |-> ""]
    /\ AtRest("auth") /\ AtRest("where") /\ AtRest("like")
    /\ AtRest("items") /\ AtRest("related") /\ AtRest("collections")
    /\ AtRest("detail")
    /\ AtRest("manga")
    /\ AtRest("stream")
    /\ AtRest("errors")
    /\ AtRest("parse")
    /\ AtRest("mapping")
    /\ AtRest("conc")
    /\ AtRest("frame")
    /\ AtRest("narrow")
    /\ AtRest("fail")
    /\ AtRest("race")
    /\ AtRest("sess")
    /\ AtRest("sort")
    /\ AtRest("appx")

\* a client asks for an image
ImageRequest ==
    \E p \in ImageParams, ty \in ImageTypes :
        /\ chain' = <<p>>
        /\ imgResp' = [type |-> ty] @@ serveMovieImage(env, movies, bucket, p, ty)
        /\ UNCHANGED <<bucket, imageFrame>>

\* the client follows the redirect it was given: the route parameter of the
\* new request is what follows the route's prefix in Location
FollowRedirect ==
    /\ imgResp.status = 301
    /\ Len(chain) < MaxHops
    /\ LET pre == ImageUrlPrefix(imgResp.type)
           p == SubSeq(imgResp.location, Len(pre) + 1, Len(imgResp.location))
       IN  /\ chain' = Append(chain, p)
           /\ imgResp' = [type |-> imgResp.type]
                         @@ serveMovieImage(env, movies, bucket, p, imgResp.type)
    /\ UNCHANGED <<bucket, imageFrame>>

ImageNext == ImageRequest \/ FollowRedirect

-----------------------------------------------------------------------------
(* Filter predicate: buildMovieWhereClauseAndParams *)

\* if (argsDict.key): the key is present and its string is not empty
Truthy(d, k) == k \in DOMAIN d /\ d[k] # ""

\* one entry of conditions with the values it pushed on sqlParams
Cond(c, p) == [c |-> c, p |-> p]

\* conditions.push(`(${xConditions.join(" OR ")})`)
OrGroup(conds) == "(" \o join(conds, " OR ") \o ")"

SearchConditions(d) ==
    IF Truthy(d, "SearchTerm")
    THEN LET term == "%" \o d["SearchTerm"] \o "%"
         IN  <<Cond(OrGroup(<<"title LIKE ?", "plot LIKE ?", "director LIKE ?",
                              "studio LIKE ?", "uniqueid_num LIKE ?", "actors LIKE ?">>),
                    <<term, term, term, term, term, term>>)>>
    ELSE <<>>

FuzzyConditions(d) ==
    IF Truthy(d, "uniqueid_num_fuzzy")
    THEN <<Cond("uniqueid_num LIKE ?", <<"%" \o d["uniqueid_num_fuzzy"] \o "%">>)>>
    ELSE <<>>

PrefixConditions(d) ==
    IF Truthy(d, "uniqueid_num_prefix")
    THEN <<Cond("uniqueid_num LIKE ?", <<d["uniqueid_num_prefix"] \o "%">>)>>
    ELSE <<>>

\* the condition and parameter pushed for one non-empty trimmed genre
GenreInterpolated(genre) == Cond("genres LIKE '%\"" \o genre \o "\"%'", <<>>)
GenreCondition(genre) == Cond("genres LIKE ?", <<"%\"" \o genre \o "\"%">>)

\* argsDict.Genres.split(',').forEach(...): the conditions of the tokens that
\* are not empty after trim(), in order
RECURSIVE GenreConds(_)
GenreConds(tokens) ==
    IF Len(tokens) = 0 THEN <<>>
    ELSE LET genre == trim(tokens[1])
         IN  (IF genre # "" THEN <<GenreCondition(genre)>> ELSE <<>>)
             \o GenreConds(Tail(tokens))

RECURSIVE ParamsOf(_)
ParamsOf(conds) ==
    IF Len(conds) = 0 THEN <<>> ELSE conds[1].p \o ParamsOf(Tail(conds))

GenresConditions(d) ==
    IF Truthy(d, "Genres")
    THEN LET genreConditions == GenreConds(split(d["Genres"], ","))
         IN  IF Len(genreConditions) > 0
             THEN <<Cond(OrGroup([i \in DOMAIN genreConditions |-> genreConditions[i].c]),
                         ParamsOf(genreConditions))>>
             ELSE <<>>
    ELSE <<>>

ParentConditions(d) ==
    IF Truthy(d, "ParentId") THEN <<Cond("root_folder = ?", <<d["ParentId"]>>)>> ELSE <<>>

ItemTypeConditions(d) ==
    IF "IncludeItemTypes" \in DOMAIN d /\ d["IncludeItemTypes"] = "Movie"
    THEN <<Cond("(set_name IS NULL OR set_name = '')", <<>>)>>
    ELSE IF "IncludeItemTypes" \in DOMAIN d /\ d["IncludeItemTypes"] = "Series"
    THEN <<Cond("(set_name IS NOT NULL AND set_name != '')", <<>>)>>
    ELSE <<>>

PersonConditions(d) ==
    IF Truthy(d, "personIds")
    THEN LET personName == d["personIds"]
         IN  <<Cond(OrGroup(<<"actors LIKE ?", "director = ?", "director LIKE ?">>),
                    <<"%\"name\":\"" \o personName \o "\"%", personName,
                      "%\"" \o personName \o "\"%">>)>>
    ELSE <<>>

StudioConditions(d) ==
    IF Truthy(d, "studioIds") THEN <<Cond("studio = ?", <<d["studioIds"]>>)>> ELSE <<>>

SeriesConditions(d) ==
    IF Truthy(d, "seriesName") THEN <<Cond("set_name = ?", <<d["seriesName"]>>)>> ELSE <<>>

\* clause: conditions.length > 0 ? conditions.join(" AND ") : "1=1"
JoinWithOr(cs) == IF Len(cs) > 0 THEN join(cs, " OR ") ELSE "1=1"
JoinConditions(cs) == IF Len(cs) > 0 THEN join(cs, " AND ") ELSE "1=1"

buildMovieWhereClauseAndParams(d) ==
    LET conditions == SearchConditions(d) \o FuzzyConditions(d) \o PrefixConditions(d)
                      \o GenresConditions(d) \o ParentConditions(d)
                      \o ItemTypeConditions(d) \o PersonConditions(d)
                      \o StudioConditions(d) \o SeriesConditions(d)
    IN  [clause |-> JoinConditions([i \in DOMAIN conditions |-> conditions[i].c]),
         params |-> ParamsOf(conditions)]

FilterKeys == <<"SearchTerm", "uniqueid_num_fuzzy", "uniqueid_num_prefix", "Genres",
                "ParentId", "IncludeItemTypes", "personIds", "studioIds", "seriesName">>

MaxGenreTokens == 2
GenreTokens == {"", "Action", " Sci-Fi "}
RECURSIVE GenreLists(_)
GenreLists(n) ==
    IF n = 0 THEN {} ELSE
    IF n = 1 THEN GenreTokens
    ELSE GenreLists(n - 1) \cup {g \o "," \o t : g \in GenreLists(n - 1), t \in GenreTokens}

\* the values a client may send for each filter key (absent is always possible)
FilterValues(k) ==
    IF k = "SearchTerm" THEN {"", "x';--?"}
    ELSE IF k = "Genres" THEN GenreLists(MaxGenreTokens)
    ELSE IF k = "IncludeItemTypes" THEN {"Movie", "Series", "Episode"}
    ELSE IF k = "uniqueid_num_fuzzy" THEN {"BC"}
    ELSE IF k = "uniqueid_num_prefix" THEN {"AB"}
    ELSE IF k = "ParentId" THEN {"/lib"}
    ELSE IF k = "personIds" THEN {"Ann"}
    ELSE IF k = "studioIds" THEN {"S1"}
    ELSE {"Saga"}

\* the query dictionaries: every key is absent or has one of its values
RECURSIVE Dicts(_)
Dicts(ks) ==
    IF Len(ks) = 0 THEN {<<>>}
    ELSE LET rest == Dicts(Tail(ks))
         IN  rest \cup {(ks[1] :> v) @@ d : v \in FilterValues(ks[1]), d \in rest}
ArgsDicts == Dicts(FilterKeys)

NotBuilt == [clause |-> NULL, params |-> <<>>]

WhereInit ==
    /\ env = DefaultEnv
    /\ movies = <<>>
    /\ argsDict \in ArgsDicts
    /\ built = NotBuilt
    /\ AtRest("auth") /\ AtRest("image") /\ AtRest("like")
    /\ AtRest("items") /\ AtRest("related") /\ AtRest("collections")
    /\ AtRest("detail")
    /\ AtRest("manga")
    /\ AtRest("stream")
    /\ AtRest("errors")
    /\ AtRest("parse")
    /\ AtRest("mapping")
    /\ AtRest("conc")
    /\ AtRest("frame")
    /\ AtRest("narrow")
    /\ AtRest("fail")
    /\ AtRest("race")
    /\ AtRest("sess")
    /\ AtRest("sort")
    /\ AtRest("appx")

\* const { clause, params } = buildMovieWhereClauseAndParams(argsDict)
Build ==
    /\ built = NotBuilt
    /\ built' = buildMovieWhereClauseAndParams(argsDict)
    /\ UNCHANGED <<argsDict, whereFrame>>

WhereNext == Build

-----------------------------------------------------------------------------
(* Like / unlike: POST and DELETE /items/:item_id_or_num/like *)

\* the lookup every movie handler starts with: by id when parseInt of the
\* parameter is a number, by uniqueid_num otherwise
Resolve(t, itemIdOrNum) ==
    LET n == parseInt(itemIdOrNum)
    IN  IF ~n.nan THEN SelectById(t, n.v) ELSE SelectByUniqueId(t, itemIdOrNum)

\* UPDATE movies SET is_liked = v for every row that shares the external
\* identifier of row movieId
UpdateSharing(t, movieId, v) ==
    [i \in DOMAIN t |->
        IF t[i].uniqueid_num = t[movieId].uniqueid_num THEN [t[i] EXCEPT !.is_liked = v]
        ELSE t[i]]

\* UPDATE movies SET is_liked = v WHERE id = movieId
UpdateIsLiked(t, movieId, v) ==
    [i \in DOMAIN t |-> IF t[i].id = movieId THEN [t[i] EXCEPT !.is_liked = v] ELSE t[i]]

\* The handler of POST (flag 1) or DELETE (flag 0): the table afterwards and
\* the response.  runFails: the UPDATE statement raises a database error.
ToggleWrite(t, movieId, flag) == UpdateIsLiked(t, movieId, 1 - t[movieId].is_liked)
SetWrite(t, movieId, flag) == UpdateIsLiked(t, movieId, flag)
LikeHandler(t, itemIdOrNum, flag, runFails) ==
    LET row == Resolve(t, itemIdOrNum)
        movieId == IF row.null THEN 0 ELSE row.row.id
    IN  IF movieId = 0
        THEN [table |-> t, movieId |-> 0, status |-> 404, reports |-> FALSE, is_liked |-> FALSE]
        ELSE IF runFails
        THEN [table |-> t, movieId |-> movieId, status |-> 500, reports |-> FALSE,
              is_liked |-> FALSE]
        ELSE [table |-> SetWrite(t, movieId, flag), movieId |-> movieId, status |-> 200,
              reports |-> TRUE, is_liked |-> (flag = 1)]

LikeParams == {"1", "2", "3", "ABC-1", "2XY-7", "none"}
LikeTables ==
    UNION {[ids -> {Row(0, u, l, NullNum, NULL, 0) : u \in {"ABC-1", "2XY-7", NULL}, l \in {0, 1}}]
           : ids \in SUBSET (1..MaxMovies)}

NoLike == [op |-> "none", param |-> "", movieId |-> 0, before |-> 0, status |-> 0,
           reports |-> FALSE, is_liked |-> FALSE]

LikeInit ==
    /\ env = DefaultEnv
    /\ movies \in {WithIds(t) : t \in LikeTables}
    /\ likeLast = NoLike
    /\ AtRest("auth") /\ AtRest("image") /\ AtRest("where")
    /\ AtRest("items") /\ AtRest("related") /\ AtRest("collections")
    /\ AtRest("detail")
    /\ AtRest("manga")
    /\ AtRest("stream")
    /\ AtRest("errors")
    /\ AtRest("parse")
    /\ AtRest("mapping")
    /\ AtRest("conc")
    /\ AtRest("frame")
    /\ AtRest("narrow")
    /\ AtRest("fail")
    /\ AtRest("race")
    /\ AtRest("sess")
    /\ AtRest("sort")
    /\ AtRest("appx")

\* what the client saw, with the flag the movie had before the request
LikeRecord(op, p, t, r) ==
    [op |-> op, param |-> p, movieId |-> r.movieId,
     before |-> IF r.movieId = 0 THEN 0 ELSE t[r.movieId].is_liked,
     status |-> r.status, reports |-> r.reports, is_liked |-> r.is_liked]

PostLike ==
    \E p \in LikeParams, runFails \in BOOLEAN :
        /\ movies' = LikeHandler(movies, p, 1, runFails).table
        /\ likeLast' = LikeRecord("like", p, movies, LikeHandler(movies, p, 1, runFails))
        /\ UNCHANGED likeFrame

DeleteLike ==
    \E p \in LikeParams, runFails \in BOOLEAN :
        /\ movies' = LikeHandler(movies, p, 0, runFails).table
        /\ likeLast' = LikeRecord("unlike", p, movies, LikeHandler(movies, p, 0, runFails))
        /\ UNCHANGED likeFrame

LikeNext == PostLike \/ DeleteLike

-----------------------------------------------------------------------------
(* GET /items: filter, sort, LIMIT / OFFSET and the page metadata *)

LowerCase == "abcdefghijklmnopqrstuvwxyz"
UpperCase == "ABCDEFGHIJKLMNOPQRSTUVWXYZ"

UpperChar(c) ==
    LET hits == {i \in 1..Len(LowerCase) : Char(LowerCase, i) = c}
    IN  IF hits = {} THEN c ELSE Char(UpperCase, CHOOSE i \in hits : TRUE)

RECURSIVE toUpperCase(_)
toUpperCase(s) == IF s = "" THEN "" ELSE UpperChar(Char(s, 1)) \o toUpperCase(Rest(s))

\* String(n) of a non-negative integer
RECURSIVE ToDecimal(_)
ToDecimal(n) ==
    IF n < 10 THEN Char(Digits, n + 1) ELSE ToDecimal(n \div 10) \o Char(Digits, (n % 10) + 1)

\* query[k] || dflt
QueryOr(query, k, dflt) == IF Truthy(query, k) THEN query[k] ELSE dflt

\* sortMap[sortBy]; "" stands for undefined.  withMovieCount: the variant of
\* the handler whose sortMap has the entry "movieCount": "id"
\* the mapped column without the validSortCols check
DbSortByUnchecked(sortBy, withMovieCount) ==
    CASE sortBy \in {"SortName", "Name"} -> "title"
      [] sortBy = "DateCreated" -> "last_scanned_date"
      [] sortBy = "PremiereDate" -> "premiered"
      [] sortBy = "CommunityRating" -> "rating"
      [] sortBy = "RunTimeTicks" -> "runtime"
      [] sortBy = "movieCount" /\ withMovieCount -> "id"
      [] sortBy \in {"constructor", "toString", "__proto__"} -> "<object>"
      [] OTHER -> "premiered"

\* the properties every object literal inherits from Object.prototype; their
\* values are functions or objects, written "<object>"
ObjectPrototypeKeys == {"constructor", "toString", "valueOf", "hasOwnProperty", "__proto__"}

sortMap(sortBy, withMovieCount) ==
    CASE sortBy \in {"SortName", "Name"} -> "title"
      [] sortBy = "DateCreated" -> "last_scanned_date"
      [] sortBy = "PremiereDate" -> "premiered"
      [] sortBy = "CommunityRating" -> "rating"
      [] sortBy = "RunTimeTicks" -> "runtime"
      [] sortBy = "movieCount" /\ withMovieCount -> "id"
      [] sortBy \in ObjectPrototypeKeys -> "<object>"
      [] OTHER -> ""

validSortCols ==
    {"title", "rating", "runtime", "premiered", "uniqueid_num", "last_scanned_date", "id"}

DbSortBy(sortBy, withMovieCount) ==
    LET mapped == IF sortMap(sortBy, withMovieCount) = "" THEN "premiered"
                  ELSE sortMap(sortBy, withMovieCount)
    IN  IF mapped \notin validSortCols THEN "premiered" ELSE mapped

DbSortOrder(sortOrder) == IF toUpperCase(sortOrder) = "DESCENDING" THEN "DESC" ELSE "ASC"

\* the value of a numeric column of a row (the columns the rows here carry)
Column(row, col) ==
    CASE col = "premiered" -> row.premiered
      [] col = "rating" -> row.rating
      [] col = "id" -> row.id

\* WHERE clause on one row, for the clauses the item queries here produce
EvalWhere(row, w) ==
    CASE w.clause = "1=1" -> TRUE
      [] w.clause = "studio = ?" -> row.studio # NULL /\ row.studio = w.params[1]

\* ORDER BY col dir NULLS LAST: a sorts strictly before b
Precedes(a, b, col, dir) ==
    LET x == Column(a, col)
        y == Column(b, col)
    IN  IF x = NullNum THEN FALSE
        ELSE IF y = NullNum THEN TRUE
        ELSE IF dir = "DESC" THEN x > y ELSE x < y

\* rows sorted in that order; rows with equal keys stay in the order of the scan
RECURSIVE InsertSorted(_, _, _, _)
InsertSorted(sorted, r, col, dir) ==
    IF sorted = <<>> THEN <<r>>
    ELSE IF Precedes(r, Head(sorted), col, dir) THEN <<r>> \o sorted
    ELSE <<Head(sorted)>> \o InsertSorted(Tail(sorted), r, col, dir)

RECURSIVE OrderBy(_, _, _)
OrderBy(rows, col, dir) ==
    IF rows = <<>> THEN <<>>
    ELSE InsertSorted(OrderBy(SubSeq(rows, 1, Len(rows) - 1), col, dir),
                      rows[Len(rows)], col, dir)

Min(a, b) == IF a < b THEN a ELSE b

\* LIMIT limit OFFSET offset
OffsetPlusOne(rows, limit, offset) == SubSeq(rows, offset + 2, Min(offset + 1 + limit, Len(rows)))
LimitOffset(rows, limit, offset) == SubSeq(rows, offset + 1, Min(offset + limit, Len(rows)))

\* SELECT * FROM movies WHERE clause, in scan (rowid) order
SelectWhere(t, w) == SelectSeq(RowsOf(t), LAMBDA r : EvalWhere(r, w))

\* Math.ceil(a / b) for a >= 0, b >= 1
Ceil(a, b) == (a + b - 1) \div b

\* Math.ceil(totalCount / limit) || orElse
FloorPages(totalCount, limit, orElse) ==
    IF totalCount \div limit = 0 THEN orElse ELSE totalCount \div limit
TotalPages(totalCount, limit, orElse) ==
    IF Ceil(totalCount, limit) = 0 THEN orElse ELSE Ceil(totalCount, limit)

\* The handler.  orElse is 1 in src/movieApi.ts and 0 in the other version of
\* the movie API; withMovieCount distinguishes their sortMap.
GetItems(t, query, orElse, withMovieCount) ==
    LET startIndex == parseInt(QueryOr(query, "StartIndex", "0")).v
        limit == parseInt(QueryOr(query, "Limit", "100")).v
        sortBy == QueryOr(query, "SortBy", "PremiereDate")
        sortOrder == QueryOr(query, "SortOrder", "Descending")
        w == buildMovieWhereClauseAndParams(query)
        matching == SelectWhere(t, w)
        totalCount == Len(matching)
        itemsRaw == LimitOffset(OrderBy(matching, DbSortBy(sortBy, withMovieCount),
                                        DbSortOrder(sortOrder)), limit, startIndex)
    IN  [status |-> 200,
         Items |-> [i \in 1..Len(itemsRaw) |-> itemsRaw[i].id],
         TotalRecordCount |-> totalCount,
         CurrentPage |-> (startIndex \div limit) + 1,
         PageSize |-> limit,
         TotalPages |-> TotalPages(totalCount, limit, orElse)]

MaxItems == 3
MaxLimit == 2

\* rating is fixed per row here: NULL on even ids
RatingOf(i) == IF i % 2 = 0 THEN NullNum ELSE i
ItemTables ==
    UNION {[1..n -> {Row(0, NULL, 0, p, st, 0) : p \in {NullNum, 1, 2}, st \in {"S1", "S2"}}]
           : n \in 0..MaxItems}
WithRatings(t) == [i \in DOMAIN t |-> [t[i] EXCEPT !.id = i, !.rating = RatingOf(i)]]

ItemQueryValues(k) ==
    CASE k = "Limit" -> {ToDecimal(n) : n \in 1..MaxLimit}
      [] k = "SortBy" -> {"CommunityRating"}
      [] k = "SortOrder" -> {"Ascending", "descending"}
      [] k = "studioIds" -> {"S1"}

\* query strings: Limit always given, the other keys given or absent
RECURSIVE Queries(_)
Queries(ks) ==
    IF Len(ks) = 0 THEN {("Limit" :> v) : v \in ItemQueryValues("Limit")}
    ELSE LET rest == Queries(Tail(ks))
         IN  rest \cup {(ks[1] :> v) @@ q : v \in ItemQueryValues(ks[1]), q \in rest}
ItemQueries ==
    {[query |-> q, orElse |-> o] : q \in Queries(<<"SortBy", "SortOrder", "studioIds">>),
                                   o \in {0, 1}}

ItemsInit ==
    /\ env = DefaultEnv
    /\ movies \in {WithRatings(t) : t \in ItemTables}
    /\ itemsQuery \in ItemQueries
    /\ pages = <<>>
    /\ AtRest("auth") /\ AtRest("image") /\ AtRest("where")
    /\ AtRest("like") /\ AtRest("related") /\ AtRest("collections")
    /\ AtRest("detail")
    /\ AtRest("manga")
    /\ AtRest("stream")
    /\ AtRest("errors")
    /\ AtRest("parse")
    /\ AtRest("mapping")
    /\ AtRest("conc")
    /\ AtRest("frame")
    /\ AtRest("narrow")
    /\ AtRest("fail")
    /\ AtRest("race")
    /\ AtRest("sess")
    /\ AtRest("sort")
    /\ AtRest("appx")

PageSizeOf(q) == parseInt(q.query["Limit"]).v

\* the client asks for the next page: StartIndex = 0, P, 2P, ... while the
\* metadata of the first page says there is one
FetchPage ==
    /\ IF Len(pages) = 0 THEN TRUE ELSE Len(pages) < pages[1].TotalPages
    /\ pages' = Append(pages,
                  GetItems(movies,
                           ("StartIndex" :> ToDecimal(Len(pages) * PageSizeOf(itemsQuery)))
                               @@ itemsQuery.query,
                           itemsQuery.orElse, itemsQuery.orElse = 0))
    /\ UNCHANGED <<itemsQuery, itemsFrame>>

ItemsNext == FetchPage

-----------------------------------------------------------------------------
(* GET /items/:item_id_or_num/precomputed_related *)

\* c.env.X ? parseInt(c.env.X) : dflt
EnvInt(e, k, dflt) == IF e[k] # NULL /\ e[k] # "" THEN parseInt(e[k]).v ELSE dflt

MAX_PRIMARY_RELATED(e) == EnvInt(e, "MAX_PRIMARY_RELATED_COUNT", 8)
NUM_RANDOM_GENRE_PICKS(e) == EnvInt(e, "NUM_RANDOM_GENRE_PICKS", 2)
MAX_GENRE_CANDIDATES(e) == EnvInt(e, "MAX_GENRE_CANDIDATES", 10)

PrmRow(src, rel, score, type) ==
    [source_movie_id |-> src, related_movie_id |-> rel, relevance_score |-> score,
     relation_type |-> type]

\* every order in which the rows of a set can be returned
RECURSIVE Perms(_)
Perms(S) ==
    IF S = {} THEN {<<>>}
    ELSE UNION {{<<x>> \o q : q \in Perms(S \ {x})} : x \in S}

\* LIMIT n
Take(rows, n) == SubSeq(rows, 1, Min(n, Len(rows)))

\* prm JOIN movies m ON prm.related_movie_id = m.id WHERE prm.source_movie_id = ?
Joined(t, rel, sourceMovieId) ==
    {r \in rel : r.source_movie_id = sourceMovieId /\ r.related_movie_id \in DOMAIN t}

\* ORDER BY prm.relevance_score DESC, m.rating DESC: a may come before b
MayPrecede(t, a, b) ==
    \/ a.relevance_score > b.relevance_score
    \/ /\ a.relevance_score = b.relevance_score
       /\ t[a.related_movie_id].rating >= t[b.related_movie_id].rating

\* the results the primary query can return: the rows in an order the ORDER BY
\* allows (rows with equal keys in any order), cut at LIMIT
PrimaryResults(t, rel, sourceMovieId, limit) ==
    LET rows == {r \in Joined(t, rel, sourceMovieId) : r.relation_type # "genre_random_pick"}
    IN  {Take(q, limit) : q \in {q \in Perms(rows) :
             \A i, j \in 1..Len(q) : i < j => MayPrecede(t, q[i], q[j])}}

\* the results the candidate query can return: ORDER BY RANDOM() LIMIT ?
CandidateResults(t, rel, sourceMovieId, limit) ==
    LET rows == {r \in Joined(t, rel, sourceMovieId) : r.relation_type = "genre_random_pick"}
    IN  {Take(q, limit) : q \in Perms(rows)}

\* the Id of each returned movie, in order
IdsOf(rows) == [i \in 1..Len(rows) |-> rows[i].related_movie_id]

\* the for loop over genreCandidatesList
RECURSIVE PickAll(_, _, _, _)
PickAll(candidates, picked, relatedIdsSoFar, num) ==
    IF candidates = <<>> \/ Len(picked) >= num THEN picked
    ELSE PickAll(Tail(candidates), Append(picked, Head(candidates)), relatedIdsSoFar, num)
RECURSIVE PickGenre(_, _, _, _)
PickGenre(candidates, picked, relatedIdsSoFar, num) ==
    IF candidates = <<>> \/ Len(picked) >= num THEN picked
    ELSE LET id == Head(candidates)
         IN  IF id # 0 /\ id \notin relatedIdsSoFar
             THEN PickGenre(Tail(candidates), Append(picked, id),
                            relatedIdsSoFar \cup {id}, num)
             ELSE PickGenre(Tail(candidates), picked, relatedIdsSoFar, num)

\* The handler, given what the two queries returned
PrecomputedRelated(e, t, itemIdOrNum, primary, candidates) ==
    LET row == Resolve(t, itemIdOrNum)
        sourceMovieId == IF row.null THEN 0 ELSE row.row.id
        primaryRelatedList == IdsOf(primary)
        genreRandomRelatedList ==
            IF NUM_RANDOM_GENRE_PICKS(e) > 0
            THEN PickGenre(IdsOf(candidates), <<>>, Range(primaryRelatedList),
                           NUM_RANDOM_GENRE_PICKS(e))
            ELSE <<>>
    IN  IF sourceMovieId = 0
        THEN [status |-> 404, source |-> 0, items |-> <<>>, primaryLen |-> 0]
        ELSE [status |-> 200, source |-> sourceMovieId,
              items |-> primaryRelatedList \o genreRandomRelatedList,
              primaryLen |-> Len(primaryRelatedList)]

MaxRelRows == 3
RelatedIds == {2, 3, 4}
PrmRows ==
    {PrmRow(1, r, sc, "similar") : r \in RelatedIds, sc \in {1, 2}}
        \cup {PrmRow(1, r, 1, ty) : r \in RelatedIds, ty \in {"same_series", "genre_random_pick"}}
\* at most one row per related movie and relation type
PrmTables ==
    {S \in SUBSET PrmRows :
        /\ Cardinality(S) <= MaxRelRows
        /\ \A a, b \in S : (/\ a.related_movie_id = b.related_movie_id
                              /\ a.relation_type = b.relation_type) => a = b}

RelatedMovies(ids) == [i \in ids |-> Row(i, NULL, 0, NullNum, NULL, i % 2)]
RelatedEnvs ==
    {[DefaultEnv EXCEPT !.MAX_PRIMARY_RELATED_COUNT = a, !.NUM_RANDOM_GENRE_PICKS = b,
                        !.MAX_GENRE_CANDIDATES = c]
        : a \in {NULL, "1"}, b \in {NULL, "1", "0"}, c \in {NULL, "1"}}
RelatedParams == {"1", "9"}

NoRelated == [param |-> "", status |-> 0, source |-> 0, items |-> <<>>, primaryLen |-> 0]

RelatedInit ==
    /\ env \in RelatedEnvs
    /\ movies \in {RelatedMovies(1..3), RelatedMovies(1..4)}
    /\ prm \in PrmTables
    /\ relLast = NoRelated
    /\ AtRest("auth") /\ AtRest("image") /\ AtRest("where")
    /\ AtRest("like") /\ AtRest("items") /\ AtRest("collections")
    /\ AtRest("detail")
    /\ AtRest("manga")
    /\ AtRest("stream")
    /\ AtRest("errors")
    /\ AtRest("parse")
    /\ AtRest("mapping")
    /\ AtRest("conc")
    /\ AtRest("frame")
    /\ AtRest("narrow")
    /\ AtRest("fail")
    /\ AtRest("race")
    /\ AtRest("sess")
    /\ AtRest("sort")
    /\ AtRest("appx")

GetRelated ==
    \E p \in RelatedParams :
        LET row == Resolve(movies, p)
            src == IF row.null THEN 0 ELSE row.row.id
        IN  \E primary \in PrimaryResults(movies, prm, src, MAX_PRIMARY_RELATED(env)),
               candidates \in CandidateResults(movies, prm, src, MAX_GENRE_CANDIDATES(env)) :
                /\ relLast' = [param |-> p]
                                @@ PrecomputedRelated(env, movies, p, primary, candidates)
                /\ UNCHANGED <<prm, relFrame>>

RelatedNext == GetRelated

-----------------------------------------------------------------------------
(* POST /movie_collections *)

\* INSERT INTO movie_collections (name) VALUES (?) RETURNING id, one atomic
\* statement: a UNIQUE constraint on name, ids generated above every id in use.
\* fails: the statement raises another database error.
InsertReturningId(rows, name, fails) ==
    LET nextId == IF rows = {} THEN 1
                  ELSE (CHOOSE m \in {r.id : r \in rows} : \A r \in rows : r.id <= m) + 1
    IN  IF fails THEN [rows |-> rows, threw |-> "D1_ERROR", id |-> 0]
        ELSE IF \E r \in rows : r.name = name
        THEN [rows |-> rows, threw |-> "UNIQUE constraint failed: movie_collections.name",
              id |-> 0]
        ELSE [rows |-> rows \cup {[id |-> nextId, name |-> name]}, threw |-> "", id |-> nextId]

\* e.message?.includes("UNIQUE constraint failed")
RECURSIVE includes(_, _)
includes(s, sub) ==
    IF Len(s) < Len(sub) THEN FALSE
    ELSE StartsWith(s, sub) \/ includes(Rest(s), sub)

\* payload.name?.trim(); "" stands for undefined as well (both are falsy)
CollectionName(payload) == IF "name" \in DOMAIN payload THEN trim(payload["name"]) ELSE ""

\* the try / catch around the insert: status and id of the response
ConflictAsCreated(r) ==
    IF r.threw = "" /\ r.id # 0 THEN [status |-> 201, id |-> r.id]
    ELSE [status |-> 201, id |-> 0]
CollectionResponse(r) ==
    IF r.threw = "" /\ r.id # 0 THEN [status |-> 201, id |-> r.id]
    ELSE IF includes(r.threw, "UNIQUE constraint failed") THEN [status |-> 409, id |-> 0]
    ELSE [status |-> 500, id |-> 0]

NumClients == 2
MaxPosts == 3
Clients == 1..NumClients
Payloads == {<<>>} \cup {[k \in {"name"} |-> v] : v \in {"Favorites", " Favorites ", "B", " "}}

IdleReq == [pc |-> "idle", name |-> ""]

CollectionsInit ==
    /\ env = DefaultEnv
    /\ movies = <<>>
    /\ movie_collections = {}
    /\ reqs = [c \in Clients |-> IdleReq]
    /\ collLog = <<>>
    /\ AtRest("auth") /\ AtRest("image") /\ AtRest("where")
    /\ AtRest("like") /\ AtRest("items") /\ AtRest("related")
    /\ AtRest("detail")
    /\ AtRest("manga")
    /\ AtRest("stream")
    /\ AtRest("errors")
    /\ AtRest("parse")
    /\ AtRest("mapping")
    /\ AtRest("conc")
    /\ AtRest("frame")
    /\ AtRest("narrow")
    /\ AtRest("fail")
    /\ AtRest("race")
    /\ AtRest("sess")
    /\ AtRest("sort")
    /\ AtRest("appx")

InFlight == {c \in DOMAIN reqs : reqs[c].pc = "insert"}

\* a request arrives: up to the await of the INSERT statement
ReceivePost(c) ==
    /\ reqs[c].pc = "idle"
    /\ Len(collLog) + Cardinality(InFlight) < MaxPosts
    /\ \E payload \in Payloads :
          LET collectionName == CollectionName(payload)
          IN  IF collectionName = ""
              THEN /\ collLog' = Append(collLog,
                          [client |-> c, name |-> "", status |-> 400, id |-> 0, served |-> FALSE,
                           waiting |-> InFlight,
                           before |-> movie_collections, after |-> movie_collections])
                   /\ UNCHANGED reqs
              ELSE /\ reqs' = [reqs EXCEPT ![c] = [pc |-> "insert", name |-> collectionName]]
                   /\ UNCHANGED collLog
    /\ UNCHANGED <<movie_collections, collFrame>>

\* the INSERT executes and the handler answers
InsertPost(c) ==
    /\ reqs[c].pc = "insert"
    /\ \E fails \in BOOLEAN :
          LET r == InsertReturningId(movie_collections, reqs[c].name, fails)
              resp == CollectionResponse(r)
          IN  /\ movie_collections' = r.rows
              /\ collLog' = Append(collLog,
                     [client |-> c, name |-> reqs[c].name, status |-> resp.status,
                      id |-> resp.id, served |-> ~fails, waiting |-> InFlight \ {c},
                      before |-> movie_collections, after |-> r.rows])
    /\ reqs' = [reqs EXCEPT ![c] = IdleReq]
    /\ UNCHANGED collFrame

CollectionsNext == \E c \in Clients : ReceivePost(c) \/ InsertPost(c)

-----------------------------------------------------------------------------
(* Row mapping: dbUtils.ts movieRowToDict *)

\* a text column as a JavaScript value
FieldValue(x) == IF x = NULL THEN JNull ELSE JStr(x)

\* a row of movies with the columns the mapping reads
MovieRow(id, uid, poster, fanart, actors, director) ==
    [id |-> id, uniqueid_num |-> uid, is_liked |-> 0, premiered |-> NullNum,
     studio |-> NULL, rating |-> 0, poster_file_path |-> poster,
     fanart_file_path |-> fanart, actors |-> actors, director |-> director]

\* encodeURIComponent: unreserved characters stay, the others are %XX
Reserved == <<" ", "%20", ",", "%2C", "/", "%2F", "&", "%26", "\"", "%22">>
EncodeChar(c) ==
    LET hits == {i \in 1..Len(Reserved) : i % 2 = 1 /\ Reserved[i] = c}
    IN  IF hits = {} THEN c ELSE Reserved[(CHOOSE i \in hits : TRUE) + 1]
RECURSIVE encodeURIComponent(_)
encodeURIComponent(s) ==
    IF s = "" THEN "" ELSE EncodeChar(Char(s, 1)) \o encodeURIComponent(Rest(s))

\* `${c.req.url.origin}`: c.req.url is a string, a string has no property
\* origin, and the template prints undefined as the text "undefined"
Origin == "undefined"
MOVIE_API_PREFIX == "/api_movies"

\* a number column in a condition: 0 and NULL are falsy
TruthyNum(n) == n # 0 /\ n # NullNum
\* a text column in a condition: "" and NULL are falsy
TruthyText(x) == x # NULL /\ x # ""

\* the image URL of the row for one image type, keyed by id, else by
\* uniqueid_num; NULL when the property is not set
ImageTag(row, imageType, path) ==
    IF TruthyNum(row.id)
    THEN IF TruthyText(path)
         THEN Origin \o MOVIE_API_PREFIX \o "/images/" \o imageType \o "/" \o ToDecimal(row.id)
         ELSE NULL
    ELSE IF TruthyText(row.uniqueid_num)
    THEN IF TruthyText(path)
         THEN Origin \o MOVIE_API_PREFIX \o "/images/" \o imageType \o "/" \o row.uniqueid_num
         ELSE NULL
    ELSE NULL

\* actorInfo.name of an element of the parsed actors: "" when the element is
\* not an object or has no name
Member(v, key) ==
    IF v.t # "object" THEN Undefined
    ELSE LET hits == {i \in 1..Len(v.k) : v.k[i] = key}
         IN  IF hits = {} THEN Undefined
             ELSE v.a[CHOOSE i \in hits : \A j \in hits : j <= i]
TruthyValue(v) ==
    IF v.t = "string" THEN v.s # ""
    ELSE IF v.t = "number" THEN v.s \notin {"0", "-0"}
    ELSE IF v.t = "literal" THEN v.s = "true"
    ELSE v.t \in {"array", "object"}
\* `${v}` for the values an actor name takes in the model
TextOf(v) == IF v.t \in {"string", "number", "literal"} THEN v.s ELSE "[object Object]"

ActorThumbUrl(name) ==
    Origin \o MOVIE_API_PREFIX \o "/images/actor_thumb/" \o encodeURIComponent(name)
ActorEntry(actorInfo) ==
    [Name |-> TextOf(Member(actorInfo, "name")), Type |-> "Actor",
     ImageTag |-> ActorThumbUrl(TextOf(Member(actorInfo, "name")))]
ActorEntries(actorsRaw) ==
    LET named == SelectSeq(actorsRaw, LAMBDA a : TruthyValue(a) /\ TruthyValue(Member(a, "name")))
    IN  [i \in 1..Len(named) |-> ActorEntry(named[i])]

\* the directors: a JSON array keeps its strings, a JSON string is one name,
\* text that is not JSON is one name when it is not empty
Directors(director) ==
    IF director = NULL THEN <<>>
    ELSE LET parsed == JSONparse(director)
         IN  IF parsed.throws THEN (IF director # "" THEN <<director>> ELSE <<>>)
             ELSE IF parsed.v.t = "array"
                  THEN LET strs == SelectSeq(parsed.v.a, LAMBDA d : d.t = "string")
                       IN  [i \in 1..Len(strs) |-> strs[i].s]
             ELSE IF parsed.v.t = "string" THEN <<parsed.v.s>>
             ELSE <<>>
DirectorEntries(director) ==
    [i \in 1..Len(Directors(director)) |->
        [Name |-> Directors(director)[i], Type |-> "Director", ImageTag |-> NULL]]

\* movieRowToDict(c, row, db): the row's own columns (the shallow copy), with
\* is_liked as a boolean, and the Emby-like fields.  collections: the result
\* of the membership query of the row.
movieRowToDict(row, collections) ==
    [is_liked |-> (row.is_liked # 0),
     Id |-> row.id,
     Type |-> "Movie",
     CommunityRating |-> row.rating,
     PremiereDate |-> row.premiered,
     member_of_collections |-> IF TruthyNum(row.id) THEN collections ELSE <<>>,
     PrimaryImageTag |-> ImageTag(row, "poster", row.poster_file_path),
     BackdropImageTags |->
        IF ImageTag(row, "fanart", row.fanart_file_path) = NULL THEN <<>>
        ELSE <<ImageTag(row, "fanart", row.fanart_file_path)>>,
     People |-> ActorEntries(parseJsonField(FieldValue(row.actors)))
                \o DirectorEntries(row.director),
     Studios |-> IF TruthyText(row.studio) THEN <<row.studio>> ELSE <<>>]
    @@ row

-----------------------------------------------------------------------------
(* GET /items/:item_id_or_num *)

\* The handler: the lookup, 404 when it finds no row, else the mapped row.
\* queryFails: the membership query of the mapping raises, and the request
\* ends in the application's error handler.
GetItem(t, itemIdOrNum, queryFails) ==
    LET movieRaw == Resolve(t, itemIdOrNum)
    IN  IF movieRaw.null
        THEN [status |-> 404, error |-> "Movie not found", mapped |-> FALSE, body |-> <<>>]
        ELSE IF queryFails
        THEN [status |-> 500, error |-> "Internal Server Error", mapped |-> FALSE, body |-> <<>>]
        ELSE [status |-> 200, error |-> NULL, mapped |-> TRUE,
              body |-> movieRowToDict(movieRaw.row, <<>>)]

ActorsTexts == {NULL, "[{\"name\":\"Al\",\"role\":\"R\"}]", "Al, Bo"}
DetailParams == {"1", "2", "3", "01", "ABC-1", "2XY-7", "none"}
DetailTables ==
    UNION {[ids -> {MovieRow(0, u, p, NULL, a, NULL) :
                        u \in {"ABC-1", "2XY-7", NULL}, p \in {NULL, "posters/p.jpg"},
                        a \in ActorsTexts}]
           : ids \in SUBSET (1..MaxMovies)}

NoDetail == [param |-> "", resp |-> [status |-> 0, error |-> NULL, mapped |-> FALSE,
                                     body |-> <<>>]]

DetailInit ==
    /\ env = DefaultEnv
    /\ movies \in {WithIds(t) : t \in DetailTables}
    /\ detLast = NoDetail
    /\ AtRest("auth") /\ AtRest("image") /\ AtRest("where")
    /\ AtRest("like") /\ AtRest("items") /\ AtRest("related")
    /\ AtRest("collections")
    /\ AtRest("manga")
    /\ AtRest("stream")
    /\ AtRest("errors")
    /\ AtRest("parse")
    /\ AtRest("mapping")
    /\ AtRest("conc")
    /\ AtRest("frame")
    /\ AtRest("narrow")
    /\ AtRest("fail")
    /\ AtRest("race")
    /\ AtRest("sess")
    /\ AtRest("sort")
    /\ AtRest("appx")

GetItemRequest ==
    \E p \in DetailParams, queryFails \in BOOLEAN :
        /\ detLast' = [param |-> p, resp |-> GetItem(movies, p, queryFails)]
        /\ UNCHANGED detailFrame

DetailNext == GetItemRequest

-----------------------------------------------------------------------------
(* POST /api/manga_item/:item_id/favorite *)

MangaRow(id, favorited) == [id |-> id, title |-> "t", is_favorited |-> favorited]

\* UPDATE mangas SET is_favorited = v WHERE id = itemId
UpdateFavoritedAndTitle(t, itemId, v) ==
    [i \in DOMAIN t |-> IF t[i].id = itemId
                        THEN [t[i] EXCEPT !.is_favorited = v, !.title = "favourite"]
                        ELSE t[i]]
UpdateIsFavorited(t, itemId, v) ==
    [i \in DOMAIN t |-> IF t[i].id = itemId THEN [t[i] EXCEPT !.is_favorited = v] ELSE t[i]]

\* typeof v === 'boolean'
IsBoolean(v) == v.t = "literal" /\ v.s \in {"true", "false"}

FavResponse(t, status, error, favorited) ==
    [table |-> t, status |-> status, error |-> error, is_favorited |-> favorited]

\* The handler.  body: the text of the request body; runFails: the UPDATE
\* raises.  An exception the handler does not catch (the body is not JSON, the
\* payload is null) is answered by the application's error handler with 500.
Favorite(t, itemParam, body, runFails) ==
    LET itemId == parseInt(itemParam)
        payload == JSONparse(body)
        favorited == Member(payload.v, "favorited")
        newStatusDb == IF favorited.s = "true" THEN 1 ELSE 0
    IN  IF payload.throws THEN FavResponse(t, 500, "Internal Server Error", FALSE)
        ELSE IF itemId.nan THEN FavResponse(t, 400, "Invalid item ID", FALSE)
        ELSE IF payload.v = JNull THEN FavResponse(t, 500, "Internal Server Error", FALSE)
        ELSE IF ~IsBoolean(favorited)
        THEN FavResponse(t, 400,
                 "Invalid request body: 'favorited' boolean field is required.", FALSE)
        ELSE IF itemId.v \notin DOMAIN t THEN FavResponse(t, 404, "Manga not found", FALSE)
        ELSE IF runFails THEN FavResponse(t, 500, "Database error", FALSE)
        ELSE FavResponse(UpdateIsFavorited(t, itemId.v, newStatusDb), 200, NULL,
                         favorited.s = "true")

MaxMangas == 2
MangaParams == {"1", "2", "3", "2XY", "abc"}
FavBodies == {"{\"favorited\":true}", "{\"favorited\":false}", "{\"favorited\":\"yes\"}",
              "{\"favorited\":1}", "{}", "null", "favorited=true"}
MangaTables == UNION {[ids -> {MangaRow(0, f) : f \in {0, 1}}] : ids \in SUBSET (1..MaxMangas)}

NoFav == [param |-> "", body |-> "", before |-> <<>>, status |-> 0, error |-> NULL,
          is_favorited |-> FALSE]

MangaInit ==
    /\ env = DefaultEnv
    /\ movies = <<>>
    /\ mangas \in {WithIds(t) : t \in MangaTables}
    /\ favLast = NoFav
    /\ AtRest("auth") /\ AtRest("image") /\ AtRest("where")
    /\ AtRest("like") /\ AtRest("items") /\ AtRest("related")
    /\ AtRest("collections") /\ AtRest("detail")
    /\ AtRest("stream")
    /\ AtRest("errors")
    /\ AtRest("parse")
    /\ AtRest("mapping")
    /\ AtRest("conc")
    /\ AtRest("frame")
    /\ AtRest("narrow")
    /\ AtRest("fail")
    /\ AtRest("race")
    /\ AtRest("sess")
    /\ AtRest("sort")
    /\ AtRest("appx")

PostFavorite ==
    \E p \in MangaParams, body \in FavBodies, runFails \in BOOLEAN :
        LET r == Favorite(mangas, p, body, runFails)
        IN  /\ mangas' = r.table
            /\ favLast' = [param |-> p, body |-> body, before |-> mangas, status |-> r.status,
                           error |-> r.error, is_favorited |-> r.is_favorited]
            /\ UNCHANGED mangaFrame

MangaNext == PostFavorite

-----------------------------------------------------------------------------
(* GET /api_movies/stream/:item_id_or_num *)

\* the columns the stream handler selects; strm_files is text or NULL
StreamRow(id, uid, strm) == [id |-> id, uniqueid_num |-> uid, strm_files |-> strm]

\* streamPathOrKey of the first entry of the parsed list: the entry when it is
\* a string, its url when it is an object with a truthy url, else undefined
\* (NULL)
StreamPathOrKey(firstStreamEntry) ==
    IF firstStreamEntry.t = "string" THEN firstStreamEntry.s
    ELSE IF firstStreamEntry.t \in {"object", "array"}
            /\ TruthyValue(Member(firstStreamEntry, "url"))
         THEN TextOf(Member(firstStreamEntry, "url"))
    ELSE NULL

FullR2Key(e, streamPathOrKey) ==
    ReplaceDoubleSlash(e.MOVIE_ASSETS_R2_BASE_PREFIX \o "/" \o streamPathOrKey)

StreamAnswer(status, error, key) == [status |-> status, error |-> error, key |-> key]

\* the handler
Stream(e, t, b, itemIdOrNum) ==
    LET movieRaw == Resolve(t, itemIdOrNum)
        strmFilesList == parseJsonField(FieldValue(movieRaw.row.strm_files))
        streamPathOrKey == StreamPathOrKey(strmFilesList[1])
        fullR2Key == FullR2Key(e, streamPathOrKey)
    IN  IF movieRaw.null THEN StreamAnswer(404, "Movie not found for streaming", NULL)
        ELSE IF ~TruthyText(movieRaw.row.strm_files)
        THEN StreamAnswer(404, "Stream files metadata not found for this movie", NULL)
        ELSE IF Len(strmFilesList) = 0 THEN StreamAnswer(404, "No stream links available", NULL)
        ELSE IF ~TruthyText(streamPathOrKey)
        THEN StreamAnswer(404, "Valid R2 key/path for video file not found in strm_files", NULL)
        ELSE IF ~e.MOVIES_BUCKET THEN StreamAnswer(500, "Stream service misconfiguration", NULL)
        ELSE IF serveFileFromR2(b, fullR2Key).status = 404
        THEN StreamAnswer(404, "Object Not Found in R2: " \o fullR2Key, fullR2Key)
        ELSE StreamAnswer(200, NULL, fullR2Key)

StrmTexts == {NULL, "", "[]", "[\"a.mp4\",\"c.mp4\"]", "[{\"url\":\"b.mp4\"}]", "[{}]", "[5]",
              "[\"\"]", "[\"/a.mp4\"]", "a.mp4, c.mp4", "[null]"}
StreamKeys == {"assets/a.mp4", "assets/b.mp4"}
StreamParams == {"1", "2", "3", "ABC-1", "2XY-7", "none"}
StreamTables ==
    UNION {[ids -> {StreamRow(0, u, s) : u \in {"ABC-1", NULL}, s \in StrmTexts}]
           : ids \in SUBSET (1..MaxMovies)}
StreamEnvs == {[DefaultEnv EXCEPT !.MOVIES_BUCKET = bound] : bound \in BOOLEAN}

NoStream == [param |-> "", resp |-> StreamAnswer(0, NULL, NULL)]

StreamInit ==
    /\ env \in StreamEnvs
    /\ movies \in {WithIds(t) : t \in StreamTables}
    /\ bucket \in SUBSET StreamKeys
    /\ chain = <<>> /\ imgResp = <<>>
    /\ streamLast = NoStream
    /\ AtRest("auth") /\ AtRest("where") /\ AtRest("like")
    /\ AtRest("items") /\ AtRest("related") /\ AtRest("collections")
    /\ AtRest("detail") /\ AtRest("manga")
    /\ AtRest("errors")
    /\ AtRest("parse")
    /\ AtRest("mapping")
    /\ AtRest("conc")
    /\ AtRest("frame")
    /\ AtRest("narrow")
    /\ AtRest("fail")
    /\ AtRest("race")
    /\ AtRest("sess")
    /\ AtRest("sort")
    /\ AtRest("appx")

GetStream ==
    \E p \in StreamParams :
        /\ streamLast' = [param |-> p, resp |-> Stream(env, movies, bucket, p)]
        /\ UNCHANGED streamFrame

StreamNext == GetStream

-----------------------------------------------------------------------------
(* app.onError and app.notFound *)

\* a value a handler throws: an Error (TypeError, SyntaxError, a D1 error),
\* an HTTPException with its status, a string, or a plain object with a message
Thrown(kind, name, message, status) ==
    [kind |-> kind, name |-> name, message |-> message, status |-> status]

ErrorAnswer(status, kind, error, message) ==
    [status |-> status, kind |-> kind, error |-> error, message |-> message]

\* the error handler raised: the exception leaves app.fetch and the runtime
\* answers with its own error page
HandlerFailed == ErrorAnswer(500, "opaque", NULL, NULL)

\* err instanceof Hono.HTTPError (index.ts): the class Hono has no member
\* HTTPError, and instanceof with an undefined right-hand side raises a
\* TypeError whatever err is
InstanceofHonoHTTPError(err) == [throws |-> TRUE, v |-> FALSE]

\* app.onError of index.ts
OnErrorIndex(err, e) ==
    LET messageTest == IF e.IS_LOCAL_DEV = "true" THEN [throws |-> FALSE, v |-> TRUE]
                       ELSE InstanceofHonoHTTPError(err)
        statusTest == InstanceofHonoHTTPError(err)
    IN  IF messageTest.throws \/ statusTest.throws THEN HandlerFailed
        ELSE ErrorAnswer(IF statusTest.v THEN err.status ELSE 500, "json",
                         "Internal Server Error",
                         IF messageTest.v THEN err.message
                         ELSE "An unexpected error occurred.")

\* app.onError of the later index.ts (HTTPException imported from
\* hono/http-exception)
OnErrorGuarded(err, e) ==
    LET isError == err.kind \in {"HTTPException", "Error"}
        errorMessage == IF err.kind = "string" THEN err.message
                        ELSE IF err.message # NULL THEN err.message
                        ELSE "An unexpected error occurred."
        errorStatus == IF err.kind = "HTTPException" THEN err.status
                       ELSE IF err.kind \in {"Error", "object"} /\ err.message # NULL
                               /\ err.status # NullNum
                            THEN err.status
                       ELSE 500
        devMessage == IF isError /\ err.message # ""
                      THEN err.name \o ": " \o err.message \o "\nStack: " \o err.name
                      ELSE "Raw error: " \o err.message
    IN  ErrorAnswer(errorStatus, "json", "Internal Server Error",
                    IF e.IS_LOCAL_DEV = "true" THEN devMessage ELSE errorMessage)

Builds == {"index.ts", "index.ts (later)"}
onError(build, err, e) ==
    IF build = "index.ts" THEN OnErrorIndex(err, e) ELSE OnErrorGuarded(err, e)

\* app.notFound, the same in both
notFound(path) ==
    IF StartsWith(path, "/api")
    THEN ErrorAnswer(404, "json", "Not Found", "API endpoint not found.")
    ELSE ErrorAnswer(404, "text", NULL, "Resource Not Found")

ThrownValues ==
    {Thrown("Error", "TypeError", "Cannot read properties of undefined (reading 'prepare')",
            NullNum),
     Thrown("Error", "SyntaxError", "Unexpected token", NullNum),
     Thrown("Error", "Error", "D1_ERROR: no such table", NullNum),
     Thrown("Error", "Error", "", NullNum),
     Thrown("HTTPException", "HTTPException", "Malformed JSON in request body", 400),
     Thrown("string", "", "failed", NullNum),
     Thrown("object", "", "gone", 503)}
RoutedPaths == {"/api/mangas", "/api_movies/items/1", "/", "/static/app.js"}
UnmatchedPaths == {"/api/nothing", "/api_movies/nothing", "/apix", "/nothing", "/ap",
                   "/pages/api"}
ErrorEnvs == {[DefaultEnv EXCEPT !.IS_LOCAL_DEV = d] : d \in {NULL, "true", "false"}}

NoError == [op |-> "none", build |-> "", path |-> "", err |-> <<>>,
            resp |-> ErrorAnswer(0, "", NULL, NULL)]

ErrorsInit ==
    /\ env \in ErrorEnvs
    /\ movies = <<>>
    /\ errLast = NoError
    /\ AtRest("auth") /\ AtRest("image") /\ AtRest("where")
    /\ AtRest("like") /\ AtRest("items") /\ AtRest("related")
    /\ AtRest("collections") /\ AtRest("detail") /\ AtRest("manga")
    /\ AtRest("stream")
    /\ AtRest("parse")
    /\ AtRest("mapping")
    /\ AtRest("conc")
    /\ AtRest("frame")
    /\ AtRest("narrow")
    /\ AtRest("fail")
    /\ AtRest("race")
    /\ AtRest("sess")
    /\ AtRest("sort")
    /\ AtRest("appx")

\* a request whose handler raises an exception it does not catch
HandlerThrows ==
    \E build \in Builds, path \in RoutedPaths, err \in ThrownValues :
        /\ errLast' = [op |-> "throw", build |-> build, path |-> path, err |-> err,
                       resp |-> onError(build, err, env)]
        /\ UNCHANGED errorsFrame

\* a request for a path no route matches
Unmatched ==
    \E build \in Builds, path \in UnmatchedPaths :
        /\ errLast' = [op |-> "unmatched", build |-> build, path |-> path, err |-> <<>>,
                       resp |-> notFound(path)]
        /\ UNCHANGED errorsFrame

ErrorsNext == HandlerThrows \/ Unmatched

-----------------------------------------------------------------------------
(* parseJsonField on its own *)

MaxListLen == 2
ListElements ==
    {JStr("a"), JStr("b c"), JStr(""), JStr("x,y"), JStr(" pad "), JStr("say \"hi\""),
     JNum("5"), JNull, JArr(<<JStr("a")>>), JObj(<<"name">>, <<JStr("Al")>>)}
Lists == UNION {[1..n -> ListElements] : n \in 0..MaxListLen}

\* text that JSON.parse rejects
NotJsonTexts == {"a, b", " a ,, b ,", " , ", "[a", "{\"a\"", "tru", "01", "[1,]", "[\"a\"] x",
                 "Action"}
\* JSON text of a value that is not a list
ScalarTexts == {"5", "\"a\"", "true", "null", "{\"url\":\"b\"}", " [ 1 , 2 ] "}

\* the inputs: a stored column that holds an encoded list, other text, an
\* empty or absent value, a value that is already an array, another value
ParseInputs ==
    {[kind |-> "encoded", list |-> L, value |-> JStr(JSONstringify(JArr(L)))] : L \in Lists}
    \cup {[kind |-> "text", list |-> <<>>, value |-> JStr(s)] : s \in NotJsonTexts \cup ScalarTexts}
    \cup {[kind |-> "empty", list |-> <<>>, value |-> v] : v \in {JStr(""), JNull, Undefined}}
    \cup {[kind |-> "array", list |-> L, value |-> JArr(L)] : L \in Lists}
    \cup {[kind |-> "other", list |-> <<>>, value |-> v] : v \in {JNum("5"), JLit("true")}}

NotParsed == [done |-> FALSE, list |-> <<>>]

ParseInit ==
    /\ env = DefaultEnv
    /\ movies = <<>>
    /\ pjIn \in ParseInputs
    /\ pjOut = NotParsed
    /\ AtRest("auth") /\ AtRest("image") /\ AtRest("where")
    /\ AtRest("like") /\ AtRest("items") /\ AtRest("related")
    /\ AtRest("collections") /\ AtRest("detail") /\ AtRest("manga")
    /\ AtRest("stream") /\ AtRest("errors")
    /\ AtRest("mapping")
    /\ AtRest("conc")
    /\ AtRest("frame")
    /\ AtRest("narrow")
    /\ AtRest("fail")
    /\ AtRest("race")
    /\ AtRest("sess")
    /\ AtRest("sort")
    /\ AtRest("appx")

ParseField ==
    /\ pjOut = NotParsed
    /\ pjOut' = [done |-> TRUE, list |-> parseJsonField(pjIn.value)]
    /\ UNCHANGED <<pjIn, parseFrame>>

ParseNext == ParseField

-----------------------------------------------------------------------------
(* movieRowToDict on its own *)

ActorNames == {"Al", "Bo"}
MappingActors == {NULL, "[{\"name\":\"Al\",\"role\":\"R\"}]",
                  "[{\"name\":\"Al\"},{\"name\":\"Bo\"},{\"role\":\"x\"}]", "Al, Bo"}
\* id 0: a row without an id
MappingRows ==
    {MovieRow(id, u, p, f, a, d) :
        id \in 0..1, u \in {NULL, "ABC-1"}, p \in {NULL, "posters/p.jpg"},
        f \in {NULL, "fanart/f.jpg"}, a \in MappingActors,
        d \in {NULL, "Dee", "[\"Dee\",\"Eve\"]"}}

NotMapped == [done |-> FALSE, dict |-> <<>>]

MappingInit ==
    /\ env = DefaultEnv
    /\ movies = <<>>
    /\ mapIn \in [row : MappingRows, actors_info : SUBSET ActorNames]
    /\ mapOut = NotMapped
    /\ AtRest("auth") /\ AtRest("image") /\ AtRest("where")
    /\ AtRest("like") /\ AtRest("items") /\ AtRest("related")
    /\ AtRest("collections") /\ AtRest("detail") /\ AtRest("manga")
    /\ AtRest("stream") /\ AtRest("errors") /\ AtRest("parse")
    /\ AtRest("conc")
    /\ AtRest("frame")
    /\ AtRest("narrow")
    /\ AtRest("fail")
    /\ AtRest("race")
    /\ AtRest("sess")
    /\ AtRest("sort")
    /\ AtRest("appx")

MapRow ==
    /\ mapOut = NotMapped
    /\ mapOut' = [done |-> TRUE, dict |-> movieRowToDict(mapIn.row, <<>>)]
    /\ UNCHANGED <<mapIn, mappingFrame>>

MappingNext == MapRow

-----------------------------------------------------------------------------
(* GET /items: the per-row mappings under Promise.all *)

\* SELECT mc.id, mc.name ... WHERE mmc.movie_id = ?
CollectionsOf(m, movieId) == IF movieId \in DOMAIN m THEN m[movieId] ELSE <<>>

\* Promise.all(promises): the results by position in the array of promises
InCompletionOrder(ts, order) == [k \in 1..Len(order) |-> ts[order[k]].result]
PromiseAll(ts, order) == [i \in 1..Len(ts) |-> ts[i].result]

\* .filter(item => item !== null)
NotNull(results) == SelectSeq(results, LAMBDA r : ~r.null)

MaxMapRows == 3
\* the results of a query: distinct movies in any order
RowLists ==
    {s \in UNION {[1..n -> 1..MaxMapRows] : n \in 0..MaxMapRows} :
        \A i, j \in DOMAIN s : i # j => s[i] # s[j]}
Memberships == [1..MaxMapRows -> {<<>>, <<[id |-> 10, name |-> "Box"]>>}]

NotStarted == [pc |-> "created", result |-> [null |-> TRUE, dict |-> <<>>]]
NoItems == [sent |-> FALSE, Items |-> <<>>]

ConcInit ==
    /\ env = DefaultEnv
    /\ movies = <<>>
    /\ mmc \in Memberships
    /\ mapRows \in {[i \in DOMAIN s |-> MovieRow(s[i], NULL, "posters/p.jpg", NULL, NULL, NULL)]
                    : s \in RowLists}
    /\ tasks = [i \in DOMAIN mapRows |-> NotStarted]
    /\ doneOrder = <<>>
    /\ itemsOut = NoItems
    /\ AtRest("auth") /\ AtRest("image") /\ AtRest("where")
    /\ AtRest("like") /\ AtRest("items") /\ AtRest("related")
    /\ AtRest("collections") /\ AtRest("detail") /\ AtRest("manga")
    /\ AtRest("stream") /\ AtRest("errors") /\ AtRest("parse")
    /\ AtRest("mapping")
    /\ AtRest("frame")
    /\ AtRest("narrow")
    /\ AtRest("fail")
    /\ AtRest("race")
    /\ AtRest("sess")
    /\ AtRest("sort")
    /\ AtRest("appx")

\* .map(row => movieRowToDict(...)): every mapping runs up to its await of the
\* membership query, in row order, before any of them continues
StartAll ==
    /\ ~itemsOut.sent
    /\ \A i \in DOMAIN tasks : tasks[i].pc = "created"
    /\ tasks' = [i \in DOMAIN tasks |-> [tasks[i] EXCEPT !.pc = "awaiting"]]
    /\ UNCHANGED <<mmc, mapRows, doneOrder, itemsOut, concFrame>>

\* the membership query of one mapping completes and the mapping runs to its end
CompleteMapping ==
    \E i \in DOMAIN tasks :
        /\ tasks[i].pc = "awaiting"
        /\ tasks' = [tasks EXCEPT ![i] =
                        [pc |-> "done",
                         result |-> [null |-> FALSE,
                                     dict |-> movieRowToDict(mapRows[i],
                                                  CollectionsOf(mmc, mapRows[i].id))]]]
        /\ doneOrder' = Append(doneOrder, i)
        /\ UNCHANGED <<mmc, mapRows, itemsOut, concFrame>>

\* await Promise.all(...) resolves once every mapping is done; the response
Respond ==
    /\ ~itemsOut.sent
    /\ \A i \in DOMAIN tasks : tasks[i].pc = "done"
    /\ itemsOut' = [sent |-> TRUE, Items |-> NotNull(PromiseAll(tasks, doneOrder))]
    /\ UNCHANGED <<mmc, mapRows, tasks, doneOrder, concFrame>>

ConcNext == StartAll \/ CompleteMapping \/ Respond

-----------------------------------------------------------------------------
(* The whole API over one database: what each handler writes *)

\* the GET handlers of movieApiApp and mangaApiApp; each of them issues SELECT
\* statements only
GetRoutes ==
    {"/api_movies/items", "/api_movies/items/:item_id_or_num",
     "/api_movies/images/poster/:movie_id_or_num", "/api_movies/images/fanart/:movie_id_or_num",
     "/api_movies/images/actor_thumb/:actor_name", "/api_movies/stream/:item_id_or_num",
     "/api_movies/genres", "/api_movies/libraries", "/api_movies/persons",
     "/api_movies/studios", "/api_movies/series",
     "/api_movies/items/:item_id_or_num/precomputed_related", "/api_movies/movie_collections",
     "/api/mangas", "/api/manga_item/:item_id"}

Database == [movies |-> movies, mangas |-> mangas, movie_collections |-> movie_collections,
             prm |-> prm]

FrameCollections == {{}, {[id |-> 1, name |-> "B"]}}
\* the flags of a table at the start: none set, or all set
FrameMovies == {[i \in 1..MaxMovies |-> Row(i, IF i = 1 THEN "ABC-1" ELSE NULL, l, NullNum, NULL, 0)]
                : l \in {0, 1}}
FrameMangas == {[i \in 1..MaxMangas |-> MangaRow(i, f)] : f \in {0, 1}}
FrameBodies == {"{\"favorited\":true}", "{\"favorited\":false}", "null"}

FrameInit ==
    /\ env = DefaultEnv
    /\ movies \in FrameMovies
    /\ mangas \in FrameMangas
    /\ favLast = <<>>
    /\ movie_collections \in FrameCollections
    /\ reqs = <<>> /\ collLog = <<>>
    /\ prm = {PrmRow(1, 2, 1, "similar")}
    /\ relLast = <<>>
    /\ db0 = [movies |-> movies, mangas |-> mangas, movie_collections |-> movie_collections,
              prm |-> prm]
    /\ frameLast = [method |-> "", route |-> ""]
    /\ AtRest("auth") /\ AtRest("image") /\ AtRest("where")
    /\ AtRest("like") /\ AtRest("items") /\ AtRest("detail")
    /\ AtRest("stream") /\ AtRest("errors") /\ AtRest("parse")
    /\ AtRest("mapping") /\ AtRest("conc")
    /\ AtRest("narrow")
    /\ AtRest("fail")
    /\ AtRest("race")
    /\ AtRest("sess")
    /\ AtRest("sort")
    /\ AtRest("appx")

frameRest == <<env, db0, authVars, imageVars, whereVars, likeVars, itemsVars, relLast, reqs,
               collLog, detailVars, favLast, streamVars, errorsVars, parseVars, mappingVars,
               concVars, narrowVars, failVars, raceVars, sessVars, sortVars, appxVars>>

\* any GET request of the two APIs
FrameGet ==
    \E route \in GetRoutes :
        /\ frameLast' = [method |-> "GET", route |-> route]
        /\ UNCHANGED <<movies, mangas, movie_collections, prm, frameRest>>

FramePostLike ==
    \E p \in LikeParams, runFails \in BOOLEAN :
        /\ movies' = LikeHandler(movies, p, 1, runFails).table
        /\ frameLast' = [method |-> "POST", route |-> "/api_movies/items/:item_id_or_num/like"]
        /\ UNCHANGED <<mangas, movie_collections, prm, frameRest>>

FrameDeleteLike ==
    \E p \in LikeParams, runFails \in BOOLEAN :
        /\ movies' = LikeHandler(movies, p, 0, runFails).table
        /\ frameLast' = [method |-> "DELETE", route |-> "/api_movies/items/:item_id_or_num/like"]
        /\ UNCHANGED <<mangas, movie_collections, prm, frameRest>>

FramePostFavorite ==
    \E p \in MangaParams, body \in FrameBodies, runFails \in BOOLEAN :
        /\ mangas' = Favorite(mangas, p, body, runFails).table
        /\ frameLast' = [method |-> "POST", route |-> "/api/manga_item/:item_id/favorite"]
        /\ UNCHANGED <<movies, movie_collections, prm, frameRest>>

FramePostCollection ==
    \E payload \in Payloads, fails \in BOOLEAN :
        /\ movie_collections' =
              IF CollectionName(payload) = "" THEN movie_collections
              ELSE InsertReturningId(movie_collections, CollectionName(payload), fails).rows
        /\ frameLast' = [method |-> "POST", route |-> "/api_movies/movie_collections"]
        /\ UNCHANGED <<movies, mangas, prm, frameRest>>

FrameNext ==
    FrameGet \/ FramePostLike \/ FrameDeleteLike \/ FramePostFavorite \/ FramePostCollection

-----------------------------------------------------------------------------
(* The filter predicate run by the database: WHERE clause over rows *)

\* a row of movies with the columns the predicate reads (text or NULL)
FilterRow(title, plot, director, studio, uid, actors, genres, root, setName) ==
    [title |-> title, plot |-> plot, director |-> director, studio |-> studio,
     uniqueid_num |-> uid, actors |-> actors, genres |-> genres,
     root_folder |-> root, set_name |-> setName]

\* SQL truth values: true, false, unknown (NULL)
Not3(a) == IF a = "T" THEN "F" ELSE IF a = "F" THEN "T" ELSE "U"
Or3(a, b) ==
    IF a = "T" \/ b = "T" THEN "T" ELSE IF a = "F" /\ b = "F" THEN "F" ELSE "U"
And3(a, b) ==
    IF a = "F" \/ b = "F" THEN "F" ELSE IF a = "T" /\ b = "T" THEN "T" ELSE "U"
Bool3(b) == IF b THEN "T" ELSE "F"

\* text LIKE pattern: % is any run of characters, _ any one character,
\* letters compare without case
RECURSIVE Like(_, _)
Like(s, p) ==
    IF p = "" THEN s = ""
    ELSE IF Char(p, 1) = "%"
         THEN IF Like(s, Rest(p)) THEN TRUE ELSE s # "" /\ Like(Rest(s), p)
    ELSE IF s = "" THEN FALSE
    ELSE /\ Char(p, 1) = "_" \/ UpperChar(Char(s, 1)) = UpperChar(Char(p, 1))
         /\ Like(Rest(s), Rest(p))

\* the column name a text starts with
IsIdentChar(c) == c = "_" \/ \E i \in 1..Len(LowerCase) : Char(LowerCase, i) = c
RECURSIVE IdentLen(_)
IdentLen(s) == IF s # "" /\ IsIdentChar(Char(s, 1)) THEN 1 + IdentLen(Rest(s)) ELSE 0

\* The outcome of evaluating a prefix of a clause on a row: ok is FALSE when
\* the text is not an expression (the statement fails to prepare or to bind),
\* v is the truth value, rest the text that follows and params the bound
\* values not yet consumed by a '?'.
Evaluated(v, rest, params) == [ok |-> TRUE, v |-> v, rest |-> rest, params |-> params]
SqlError == [ok |-> FALSE, v |-> "U", rest |-> "", params |-> <<>>]

\* column op operand, for the comparisons the clauses here contain
Comparison(row, col, s, params) ==
    LET x == row[col]
        bind == IF params = <<>> THEN "" ELSE Head(params)
    IN  IF StartsWith(s, " IS NULL") THEN Evaluated(Bool3(x = NULL), Drop(s, 8), params)
        ELSE IF StartsWith(s, " IS NOT NULL")
        THEN Evaluated(Bool3(x # NULL), Drop(s, 12), params)
        ELSE IF StartsWith(s, " = ''")
        THEN Evaluated(IF x = NULL THEN "U" ELSE Bool3(x = ""), Drop(s, 5), params)
        ELSE IF StartsWith(s, " != ''")
        THEN Evaluated(IF x = NULL THEN "U" ELSE Bool3(x # ""), Drop(s, 6), params)
        ELSE IF params = <<>> THEN SqlError
        ELSE IF StartsWith(s, " LIKE ?")
        THEN Evaluated(IF x = NULL THEN "U" ELSE Bool3(Like(x, bind)), Drop(s, 7),
                       Tail(params))
        ELSE IF StartsWith(s, " = ?")
        THEN Evaluated(IF x = NULL THEN "U" ELSE Bool3(x = bind), Drop(s, 4), Tail(params))
        ELSE SqlError

\* expr := and { " OR " and } ; and := atom { " AND " atom } ;
\* atom := "(" expr ")" | "1=1" | column comparison
RECURSIVE EvalOr(_, _, _)
RECURSIVE EvalOrTail(_, _)
RECURSIVE EvalAnd(_, _, _)
RECURSIVE EvalAndTail(_, _)
RECURSIVE EvalAtom(_, _, _)
EvalAtom(row, s, params) ==
    IF StartsWith(s, "(")
    THEN LET r == EvalOr(row, Drop(s, 1), params)
         IN  IF r.ok /\ StartsWith(r.rest, ")") THEN [r EXCEPT !.rest = Drop(r.rest, 1)]
             ELSE SqlError
    ELSE IF StartsWith(s, "1=1") THEN Evaluated("T", Drop(s, 3), params)
    ELSE LET n == IdentLen(s)
             col == SubSeq(s, 1, n)
         IN  IF n = 0 \/ col \notin DOMAIN row THEN SqlError
             ELSE Comparison(row, col, Drop(s, n), params)
EvalAndTail(row, left) ==
    IF left.ok /\ StartsWith(left.rest, " AND ")
    THEN LET r == EvalAtom(row, Drop(left.rest, 5), left.params)
         IN  IF r.ok THEN EvalAndTail(row, [r EXCEPT !.v = And3(left.v, r.v)]) ELSE SqlError
    ELSE left
EvalAnd(row, s, params) == EvalAndTail(row, EvalAtom(row, s, params))
EvalOrTail(row, left) ==
    IF left.ok /\ StartsWith(left.rest, " OR ")
    THEN LET r == EvalAnd(row, Drop(left.rest, 4), left.params)
         IN  IF r.ok THEN EvalOrTail(row, [r EXCEPT !.v = Or3(left.v, r.v)]) ELSE SqlError
    ELSE left
EvalOr(row, s, params) == EvalOrTail(row, EvalAnd(row, s, params))

\* the clause on one row: its truth value, or "E" when the clause is not an
\* expression or the number of parameters is not the number of placeholders
RowOutcome(row, w) ==
    LET r == EvalOr(row, w.clause, w.params)
    IN  IF ~r.ok \/ r.rest # "" \/ r.params # <<>> THEN "E" ELSE r.v

\* SELECT id FROM movies WHERE clause, bound to params: the ids of the rows on
\* which the clause is true, or a failure
RunWhere(t, w) ==
    LET out == {<<i, RowOutcome(t[i], w)>> : i \in DOMAIN t}
        bad == \E o \in out : o[2] = "E"
    IN  [fails |-> bad, ids |-> IF bad THEN {} ELSE {o[1] : o \in {o \in out : o[2] = "T"}}]

\* the rows of the narrowing specification
ActorsJson == "[{\"name\":\"Ann\",\"role\":\"Lead\"}]"
FilterRows ==
    <<FilterRow("Alpha", NULL, "Ann", "S1", "ABC-1", ActorsJson, "[\"Action\"]",
                "/lib", "Saga"),
      FilterRow("x';--?", "about ann", "[\"Ann\",\"Bob\"]", "S2", "XBC-2", NULL,
                "[\"Sci-Fi\",\"Action\"]", "/other", NULL),
      FilterRow(NULL, NULL, NULL, NULL, NULL, NULL, NULL, "/lib", ""),
      FilterRow("Beta", "plot", "Bob", "S1", "AB", "[]", "[\"Drama\"]", "/lib", "Saga")>>
FilterTables == {[i \in ids |-> FilterRows[i]] : ids \in {{}, {1, 2}, {3, 4}}}

\* the values the narrowing client sends for a filter key
NarrowValues(k) ==
    IF k = "SearchTerm" THEN {"ann", "%"}
    ELSE IF k = "Genres" THEN {"Action", ",", "Action, Sci-Fi ", "Western"}
    ELSE IF k = "IncludeItemTypes" THEN {"Movie", "Series", "Episode"}
    ELSE IF k = "uniqueid_num_fuzzy" THEN {"BC"}
    ELSE IF k = "uniqueid_num_prefix" THEN {"AB"}
    ELSE IF k = "ParentId" THEN {"/lib"}
    ELSE IF k = "personIds" THEN {"Ann"}
    ELSE IF k = "studioIds" THEN {"S1"}
    ELSE {"Saga"}

\* the most filter keys the narrowing client sends at once
MaxFilters == 3

NoPrev == [filt |-> <<>>, hits |-> {}, key |-> "", fails |-> FALSE]

\* the client's first query carries no filter
NarrowInit ==
    /\ env = DefaultEnv
    /\ movies \in FilterTables
    /\ filt = <<>>
    /\ matched = RunWhere(movies, buildMovieWhereClauseAndParams(<<>>))
    /\ filtPrev = NoPrev
    /\ AtRest("auth") /\ AtRest("image") /\ AtRest("where") /\ AtRest("like")
    /\ AtRest("items") /\ AtRest("related") /\ AtRest("collections")
    /\ AtRest("detail") /\ AtRest("manga") /\ AtRest("stream")
    /\ AtRest("errors") /\ AtRest("parse") /\ AtRest("mapping")
    /\ AtRest("conc") /\ AtRest("frame")
    /\ AtRest("fail")
    /\ AtRest("race")
    /\ AtRest("sess")
    /\ AtRest("sort")
    /\ AtRest("appx")

\* the client repeats its query with one more filter key
AddFilter ==
    \E i \in DOMAIN FilterKeys :
        /\ FilterKeys[i] \notin DOMAIN filt
        /\ Cardinality(DOMAIN filt) < MaxFilters
        /\ \E v \in NarrowValues(FilterKeys[i]) :
              LET more == (FilterKeys[i] :> v) @@ filt
              IN  /\ filt' = more
                  /\ matched' = RunWhere(movies, buildMovieWhereClauseAndParams(more))
                  /\ filtPrev' = [filt |-> filt, hits |-> matched.ids, key |-> FilterKeys[i],
                                  fails |-> matched.fails]
        /\ UNCHANGED narrowFrame

NarrowNext == AddFilter

-----------------------------------------------------------------------------
(* GET /items when a backend call fails *)

\* a D1 call: the statement and the row it was bound to (0: none)
Call(q, row) == [q |-> q, row |-> row]

\* Promise.all over the mappings: rejected as soon as one mapping has
\* rejected, fulfilled when every one has fulfilled, pending otherwise
AllSettled(ss) ==
    IF \E i \in DOMAIN ss : ss[i] = "awaiting" THEN "pending" ELSE "fulfilled"
PromiseAllState(ss) ==
    IF \E i \in DOMAIN ss : ss[i] = "rejected" THEN "rejected"
    ELSE IF \A i \in DOMAIN ss : ss[i] = "fulfilled" THEN "fulfilled"
    ELSE "pending"

\* catch (dbError): c.json({error: "Database query failed", ...}, 500)
DatabaseError ==
    [status |-> 500, kind |-> "json", error |-> "Database query failed"]

\* c.json({Items: itemsList, TotalRecordCount: totalCount, ...})
ItemsAnswer(rows, ss) ==
    [status |-> 200, kind |-> "json",
     Items |-> SelectSeq(rows, LAMBDA r : \E i \in DOMAIN rows : rows[i] = r /\ ss[i] = "fulfilled"),
     TotalRecordCount |-> Len(rows)]

NotAnswered == [status |-> 0, kind |-> ""]

\* what may fail: the count query, the data query, and the membership query
\* of the rows in members
Plans ==
    {[rows |-> [i \in 1..n |-> i], count |-> c, data |-> d, members |-> m]
        : n \in 0..MaxMapRows, c \in BOOLEAN, d \in BOOLEAN, m \in SUBSET (1..MaxMapRows)}

FailInit ==
    /\ env = DefaultEnv
    /\ movies = <<>>
    /\ plan \in Plans
    /\ hpc = "start"
    /\ calls = <<>>
    /\ subs = <<>>
    /\ itemsResp = NotAnswered
    /\ AtRest("auth") /\ AtRest("image") /\ AtRest("where") /\ AtRest("like")
    /\ AtRest("items") /\ AtRest("related") /\ AtRest("collections")
    /\ AtRest("detail") /\ AtRest("manga") /\ AtRest("stream")
    /\ AtRest("errors") /\ AtRest("parse") /\ AtRest("mapping")
    /\ AtRest("conc") /\ AtRest("frame") /\ AtRest("narrow")
    /\ AtRest("race")
    /\ AtRest("sess")
    /\ AtRest("sort")
    /\ AtRest("appx")

\* await countQuery.bind(...whereParams).first()
CountQuery ==
    /\ hpc = "start"
    /\ calls' = Append(calls, Call("count", 0))
    /\ IF plan.count
       THEN hpc' = "answered" /\ itemsResp' = DatabaseError
       ELSE hpc' = "counted" /\ UNCHANGED itemsResp
    /\ UNCHANGED <<plan, subs, failFrame>>

\* await dataQuery.bind(...).all(), then .map(row => movieRowToDict(...)):
\* every mapping runs up to the await of its membership query
DataQuery ==
    /\ hpc = "counted"
    /\ IF plan.data
       THEN /\ calls' = Append(calls, Call("data", 0))
            /\ hpc' = "answered" /\ itemsResp' = DatabaseError
            /\ UNCHANGED subs
       ELSE /\ calls' = Append(calls, Call("data", 0))
                        \o [i \in DOMAIN plan.rows |-> Call("collections", plan.rows[i])]
            /\ subs' = [i \in DOMAIN plan.rows |-> "awaiting"]
            /\ hpc' = "mapping"
            /\ UNCHANGED itemsResp
    /\ UNCHANGED <<plan, failFrame>>

\* the membership query of one mapping settles; the mapping fulfils or rejects
MembershipSettles ==
    \E i \in DOMAIN subs :
        /\ subs[i] = "awaiting"
        /\ subs' = [subs EXCEPT ![i] = IF plan.rows[i] \in plan.members
                                       THEN "rejected" ELSE "fulfilled"]
        /\ UNCHANGED <<plan, hpc, calls, itemsResp, failFrame>>

\* await Promise.all(itemsListPromises) settles: the response, or the catch
AnswerItems ==
    /\ hpc = "mapping"
    /\ PromiseAllState(subs) # "pending"
    /\ hpc' = "answered"
    /\ itemsResp' = IF PromiseAllState(subs) = "rejected" THEN DatabaseError
                    ELSE ItemsAnswer(plan.rows, subs)
    /\ UNCHANGED <<plan, calls, subs, failFrame>>

FailNext == CountQuery \/ DataQuery \/ MembershipSettles \/ AnswerItems

-----------------------------------------------------------------------------
(* Concurrent like / unlike requests on one movie *)

MaxLikers == 3

\* the flag a request writes: 1 for POST .../like, 0 for DELETE .../like
FlagOf(op) == IF op = "like" THEN 1 ELSE 0

\* a request that has not run yet; pc is the await it stands before
NewLiker(op, param) ==
    [op |-> op, param |-> param, pc |-> "lookup", movieId |-> 0, status |-> 0,
     is_liked |-> FALSE]

\* two movies; the requests name the first by its id or its external identifier
RaceTables ==
    {(1 :> Row(1, "ABC-1", a, NullNum, NULL, 0)) @@ (2 :> Row(2, NULL, b, NullNum, NULL, 0))
        : a \in {0, 1}, b \in {0, 1}}
RaceParams == {"1", "ABC-1"}

RaceInit ==
    /\ env = DefaultEnv
    /\ movies \in RaceTables
    /\ likers \in [1..MaxLikers -> {NewLiker(op, p) : op \in {"like", "unlike"},
                                                       p \in RaceParams}]
    /\ lastUpdate = NullNum
    /\ AtRest("auth") /\ AtRest("image") /\ AtRest("where") /\ AtRest("like")
    /\ AtRest("items") /\ AtRest("related") /\ AtRest("collections")
    /\ AtRest("detail") /\ AtRest("manga") /\ AtRest("stream")
    /\ AtRest("errors") /\ AtRest("parse") /\ AtRest("mapping")
    /\ AtRest("conc") /\ AtRest("frame") /\ AtRest("narrow")
    /\ AtRest("fail")
    /\ AtRest("sess")
    /\ AtRest("sort")
    /\ AtRest("appx")

\* await ... SELECT id, title FROM movies WHERE ... .first(), then the 404
\* of a request that found no movie
Lookup ==
    \E k \in DOMAIN likers :
        /\ likers[k].pc = "lookup"
        /\ LET row == Resolve(movies, likers[k].param)
           IN  likers' = [likers EXCEPT ![k] =
                            IF row.null \/ row.row.id = 0
                            THEN [@ EXCEPT !.pc = "done", !.status = 404]
                            ELSE [@ EXCEPT !.pc = "update", !.movieId = row.row.id]]
        /\ UNCHANGED <<movies, lastUpdate, raceFrame>>

\* await ... UPDATE movies SET is_liked = flag WHERE id = ? .run(), then the
\* response; runFails: the statement raises
RunUpdate ==
    \E k \in DOMAIN likers, runFails \in BOOLEAN :
        /\ likers[k].pc = "update"
        /\ IF runFails
           THEN /\ likers' = [likers EXCEPT ![k] = [@ EXCEPT !.pc = "done", !.status = 500]]
                /\ UNCHANGED <<movies, lastUpdate>>
           ELSE /\ movies' = SetWrite(movies, likers[k].movieId, FlagOf(likers[k].op))
                /\ lastUpdate' = FlagOf(likers[k].op)
                /\ likers' = [likers EXCEPT ![k] =
                                [@ EXCEPT !.pc = "done", !.status = 200,
                                          !.is_liked = (FlagOf(likers[k].op) = 1)]]
        /\ UNCHANGED raceFrame

RaceNext == Lookup \/ RunUpdate

-----------------------------------------------------------------------------
(* Sessions over time: login, logout and tokens presented again *)

MaxLogouts == 2

SessPaths == {"/logout", "/login", "/", "/api/mangas", "/secret"}

\* what a client can put in its cookie jar by itself: nothing, an empty
\* value, text that is no token, a token signed with a key of its own
OwnCookies == {NoCookie, EmptyCookie, Garbage, Token("jwt", "other", TRUE, NoExp)}

SessInit ==
    /\ env \in Envs
    /\ movies = <<>>
    /\ now = 1
    /\ jar = NoCookie
    /\ authLast = NoRequest
    /\ issued = {}
    /\ logouts = 0
    /\ AtRest("image") /\ AtRest("where") /\ AtRest("like")
    /\ AtRest("items") /\ AtRest("related") /\ AtRest("collections")
    /\ AtRest("detail") /\ AtRest("manga") /\ AtRest("stream")
    /\ AtRest("errors") /\ AtRest("parse") /\ AtRest("mapping")
    /\ AtRest("conc") /\ AtRest("frame") /\ AtRest("narrow")
    /\ AtRest("fail") /\ AtRest("race")
    /\ AtRest("sort")
    /\ AtRest("appx")

\* POST /login; the client keeps a copy of the token it is given
SessLogin ==
    \E form \in Forms :
        LET resp == PostLoginResponse(env, form)
        IN  /\ authLast' = [op |-> "postLogin", path |-> "/login", form |-> form,
                            token |-> jar, at |-> now, resp |-> resp]
            /\ jar' = StoreCookie(jar, resp)
            /\ issued' = IF resp.cookie = "set" THEN issued \cup {resp.token} ELSE issued
            /\ UNCHANGED <<now, logouts, sessionFrame>>

\* any request behind the middleware, GET /logout among them
SessRequest ==
    \E path \in SessPaths :
        LET resp == requireLogin(env, path, jar, now)
        IN  /\ path = "/logout" => logouts < MaxLogouts
            /\ authLast' = [op |-> "request", path |-> path, form |-> <<>>,
                            token |-> jar, at |-> now, resp |-> resp]
            /\ jar' = StoreCookie(jar, resp)
            /\ logouts' = IF path = "/logout" THEN logouts + 1 ELSE logouts
            /\ UNCHANGED <<now, issued, sessionFrame>>

\* the client puts a cookie in its jar: a token it was given earlier, or one
\* of its own making
SessPresent ==
    /\ \E tok \in issued \cup OwnCookies : jar' = tok
    /\ UNCHANGED <<now, authLast, issued, logouts, sessionFrame>>

SessTick ==
    /\ now < MaxTime
    /\ now' = now + 1
    /\ UNCHANGED <<jar, authLast, issued, logouts, sessionFrame>>

SessNext == SessLogin \/ SessRequest \/ SessPresent \/ SessTick

-----------------------------------------------------------------------------
(* GET /items: the ORDER BY the handler interpolates *)

\* `ORDER BY ${dbSortBy} ${dbSortOrder} NULLS LAST` for a query
OrderByOf(query, withMovieCount) ==
    LET sortBy == QueryOr(query, "SortBy", "PremiereDate")
        sortOrder == QueryOr(query, "SortOrder", "Descending")
        col == DbSortBy(sortBy, withMovieCount)
        dir == DbSortOrder(sortOrder)
    IN  [col |-> col, dir |-> dir,
         sql |-> "ORDER BY " \o col \o " " \o dir \o " NULLS LAST"]

SortByValues ==
    {"", "SortName", "Name", "DateCreated", "PremiereDate", "CommunityRating",
     "RunTimeTicks", "movieCount", "uniqueid_num", "id", "title", "sortname",
     "constructor", "__proto__", "toString", "id; DROP TABLE movies"}
SortOrderValues ==
    {"", "Descending", "descending", "DESCENDING", "dEsCeNdInG", "Ascending",
     "ascending", "desc", "DESC", "descending ", "descending; DROP TABLE movies"}

\* a query: each of the two keys absent or with one of its values
SortQueries ==
    {a @@ b : a \in {<<>>} \cup {("SortBy" :> v) : v \in SortByValues},
              b \in {<<>>} \cup {("SortOrder" :> v) : v \in SortOrderValues}}

NotOrdered == [col |-> "", dir |-> "", sql |-> ""]

SortInit ==
    /\ env = DefaultEnv
    /\ movies = <<>>
    /\ sortIn \in {[query |-> q, withMovieCount |-> w] : q \in SortQueries, w \in BOOLEAN}
    /\ sortOut = NotOrdered
    /\ AtRest("auth") /\ AtRest("image") /\ AtRest("where") /\ AtRest("like")
    /\ AtRest("items") /\ AtRest("related") /\ AtRest("collections")
    /\ AtRest("detail") /\ AtRest("manga") /\ AtRest("stream")
    /\ AtRest("errors") /\ AtRest("parse") /\ AtRest("mapping")
    /\ AtRest("conc") /\ AtRest("frame") /\ AtRest("narrow")
    /\ AtRest("fail") /\ AtRest("race") /\ AtRest("sess")
    /\ AtRest("appx")

\* the handler prepares its data query
PrepareOrderBy ==
    /\ sortOut = NotOrdered
    /\ sortOut' = OrderByOf(sortIn.query, sortIn.withMovieCount)
    /\ UNCHANGED <<sortIn, sortFrame>>

SortNext == PrepareOrderBy

-----------------------------------------------------------------------------
(* GET /api/mangas and the appendices of GET /api/manga_item/:item_id *)

MaxAppx == 3

\* titles in alphabetical order; the title of a row is chosen against the
\* order of the ids
AppxTitles == <<"Ann", "Bo", "Cyn", "Dan", "Eve">>
TitleRank(title) == CHOOSE i \in 1..Len(AppxTitles) : AppxTitles[i] = title

\* A row of mangas.  is_appendix_to is the id of the parent or NullNum.
AppxRow(id, parent) ==
    [id |-> id, title |-> AppxTitles[MaxAppx + 1 - id],
     author |-> IF id % 2 = 1 THEN "Kei" ELSE "Lu",
     page_count |-> (id * 3) % 4, is_appendix_to |-> parent, is_favorited |-> 0]

AppxTables ==
    {[i \in 1..MaxAppx |-> AppxRow(i, f[i])] : f \in [1..MaxAppx -> {NullNum} \cup (1..MaxAppx)]}
MangaCollections == {{}, {<<1, 1>>, <<2, 1>>, <<2, 2>>, <<3, 2>>}}

\* the conditions of GET /mangas with the default filter left out
MangasWhereAll(m, mc, query) ==
    LET cid == IF Truthy(query, "collection_id") THEN parseInt(query["collection_id"])
               ELSE [nan |-> TRUE, v |-> 0]
        collectionId == ~cid.nan /\ cid.v # 0
        author == Truthy(query, "author")
        searchTerm == Truthy(query, "search_term")
    IN  /\ collectionId => <<m.id, cid.v>> \in mc
        /\ author => m.author = query["author"]
        /\ (searchTerm /\ ~author) =>
              LET p == "%" \o query["search_term"] \o "%"
              IN  Like(m.title, p) \/ Like(m.author, p)

\* conditions.join(' AND ') of GET /mangas over a row m of mangas (joined with
\* manga_collections when collectionId is truthy)
MangasWhere(m, mc, query) ==
    /\ m.is_appendix_to = NullNum
    /\ MangasWhereAll(m, mc, query)

\* orderMap[sortBy] || orderMap['title_asc']: the keys of the ORDER BY, "" when
\* the text interpolated is not SQL (a property inherited by the object
\* literal)
orderMap(sortBy) ==
    CASE sortBy = "title_asc" -> <<"title", "ASC">>
      [] sortBy = "title_desc" -> <<"title", "DESC">>
      [] sortBy = "id_desc" -> <<"id", "DESC">>
      [] sortBy = "id_asc" -> <<"id", "ASC">>
      [] sortBy = "page_count_desc" -> <<"page_count", "DESC">>
      [] sortBy = "page_count_asc" -> <<"page_count", "ASC">>
      [] sortBy \in ObjectPrototypeKeys -> <<"<object>", "">>
      [] OTHER -> <<"title", "ASC">>

\* the sort key of a row: page_count orders by m.title ASC among equals
MangaKey(m, ord) ==
    LET k == IF ord[1] = "title" THEN TitleRank(m.title)
             ELSE IF ord[1] = "id" THEN m.id
             ELSE m.page_count * (Len(AppxTitles) + 1)
                  + (IF ord[2] = "DESC" THEN 0 - TitleRank(m.title) ELSE TitleRank(m.title))
    IN  IF ord[2] = "DESC" THEN 0 - k ELSE k

RECURSIVE MangaOrder(_, _)
MangaOrder(rows, ord) ==
    IF rows = {} THEN <<>>
    ELSE LET first == CHOOSE m \in rows : \A n \in rows : MangaKey(m, ord) <= MangaKey(n, ord)
         IN  <<first>> \o MangaOrder(rows \ {first}, ord)

\* LIMIT perPage OFFSET offset of SQLite: a negative limit is no limit, a
\* negative offset is 0
SqliteLimit(rows, perPage, offset) ==
    LET o == IF offset < 0 THEN 0 ELSE offset
        n == IF perPage < 0 THEN Len(rows) ELSE perPage
    IN  SubSeq(rows, o + 1, Min(o + n, Len(rows)))

MangasAnswer(status, list, total) == [status |-> status, mangas |-> list, total_mangas |-> total]

\* GET /mangas
GetMangasHandler(t, mc, query) ==
    LET sortBy == QueryOr(query, "sort_by", "title_asc")
        page == parseInt(QueryOr(query, "page", "1"))
        perPage == parseInt(QueryOr(query, "per_page", "40"))
        found == {t[i] : i \in {j \in DOMAIN t : MangasWhere(t[j], mc, query)}}
        totalMangas == Cardinality({m.id : m \in found})
        ord == orderMap(sortBy)
    IN  IF ord[1] = "<object>" \/ page.nan \/ perPage.nan
        THEN MangasAnswer(500, <<>>, NullNum)
        ELSE MangasAnswer(200,
                          SqliteLimit(MangaOrder(found, ord), perPage.v, (page.v - 1) * perPage.v),
                          totalMangas)

\* GET /manga_item/:item_id: the record and its appendices
GetMangaItemHandler(t, param) ==
    LET itemId == parseInt(param)
    IN  IF itemId.nan THEN [status |-> 400, id |-> NullNum, appendices |-> <<>>]
        ELSE IF itemId.v \notin DOMAIN t THEN [status |-> 404, id |-> NullNum, appendices |-> <<>>]
        ELSE [status |-> 200, id |-> itemId.v,
              appendices |->
                  LET rows == MangaOrder({t[i] : i \in {j \in DOMAIN t : t[j].is_appendix_to = itemId.v}},
                                         <<"title", "ASC">>)
                  IN  [k \in 1..Len(rows) |->
                          [id |-> rows[k].id, title |-> rows[k].title,
                           page_count |-> rows[k].page_count]]]

\* a query of GET /mangas: each key absent or with one of its values
Pick(k, values) == {<<>>} \cup {(k :> v) : v \in values}
MangasQueries ==
    {a @@ b @@ c @@ d @@ e @@ f :
        a \in Pick("search_term", {"n"}),
        b \in Pick("author", {"Kei"}),
        c \in Pick("collection_id", {"1", "x"}),
        d \in Pick("sort_by", {"id_desc", "page_count_asc", "constructor"}),
        e \in Pick("page", {"2", "0"}),
        f \in Pick("per_page", {"1", "-1", "x"})}
ItemParams == {"0", "1", "2", "3", "4", "2x", "abc"}

AppxInit ==
    /\ env = DefaultEnv
    /\ movies = <<>>
    /\ mangas \in AppxTables
    /\ favLast = <<>>
    /\ manga_collections \in MangaCollections
    /\ mangaLast = <<>>
    /\ AtRest("auth") /\ AtRest("image") /\ AtRest("where") /\ AtRest("like")
    /\ AtRest("items") /\ AtRest("related") /\ AtRest("collections")
    /\ AtRest("detail") /\ AtRest("stream")
    /\ AtRest("errors") /\ AtRest("parse") /\ AtRest("mapping")
    /\ AtRest("conc") /\ AtRest("frame") /\ AtRest("narrow")
    /\ AtRest("fail") /\ AtRest("race") /\ AtRest("sess") /\ AtRest("sort")

GetMangas ==
    \E query \in MangasQueries :
        /\ mangaLast = <<>>
        /\ mangaLast' = [route |-> "/mangas", query |-> query, param |-> "",
                         resp |-> GetMangasHandler(mangas, manga_collections, query)]
        /\ UNCHANGED <<manga_collections, appxFrame>>

GetMangaItem ==
    \E param \in ItemParams :
        /\ mangaLast = <<>>
        /\ mangaLast' = [route |-> "/manga_item/:item_id", query |-> <<>>, param |-> param,
                         resp |-> GetMangaItemHandler(mangas, param)]
        /\ UNCHANGED <<manga_collections, appxFrame>>

AppxNext == GetMangas \/ GetMangaItem

-----------------------------------------------------------------------------
(* Properties of the session gate *)

\* a cookie value that is a token signed with the deployment's session secret,
\* not expired at time t, whose payload has loggedIn true
ValidSession(e, token, t) ==
    /\ token.kind = "jwt"
    /\ token.key = e.SESSION_SECRET_KEY
    /\ token.exp = NoExp \/ token.exp > t
    /\ token.loggedIn

OnAllowList(path) ==
    \E pre \in {"/login", "/static/", "/favicon.ico"} : StartsWith(path, pre)

CodeMatches == "login_code" \in DOMAIN authLast.form /\ authLast.form["login_code"] = env.LOGIN_CODE

FreshToken ==
    /\ authLast.resp.token.kind = "jwt"
    /\ authLast.resp.token.key = env.SESSION_SECRET_KEY
    /\ authLast.resp.token.loggedIn

BackToLogin ==
    /\ authLast.resp.cookie = "keep"
    /\ authLast.resp.status = 303
    /\ StartsWith(authLast.resp.location, "/login?error")

\* C2 as stated: POST /login sets the cookie to a freshly signed token if and
\* only if the submitted code equals LOGIN_CODE; any other code sets no cookie
\* and redirects to /login with an error parameter.
C2_AsStated ==
    authLast.op = "postLogin" =>
        /\ (authLast.resp.cookie = "set" /\ FreshToken) <=> CodeMatches
        /\ ~CodeMatches => BackToLogin

\* C2, amended: the cookie is set to a freshly signed token if and only if the
\* code equals LOGIN_CODE and the session secret is a non-empty string; with
\* a matching code and no usable secret the request fails without a cookie;
\* any other code sets no cookie and redirects to /login with an error
\* parameter.
C2_LoginCookie ==
    authLast.op = "postLogin" =>
        /\ (authLast.resp.cookie = "set" /\ FreshToken)
               <=> (CodeMatches /\ SecretConfigured(env))
        /\ (CodeMatches /\ ~SecretConfigured(env)) =>
               (authLast.resp.cookie = "keep" /\ authLast.resp.status = 500)
        /\ ~CodeMatches => BackToLogin

\* the matching code was posted to a deployment with a session secret
C2_Witness ==
    /\ authLast.op = "postLogin"
    /\ CodeMatches
    /\ SecretConfigured(env)
    /\ authLast.resp.cookie = "set"
    /\ jar = authLast.resp.token

-----------------------------------------------------------------------------
(* Properties of the poster / fanart endpoint *)

IsNumeric(s) == s # "" /\ \A i \in 1..Len(s) : IsDigit(Char(s, i))

\* the record a numeric route parameter names
RecordOf(param) == movies[parseInt(param).v]
HasRecord(param) ==
    /\ IsNumeric(param)
    /\ parseInt(param).v \in DOMAIN movies
    /\ RecordOf(param).uniqueid_num \notin {NULL, ""}

\* C3: a request by a numeric id whose record's external identifier equals
\* that id string does not redirect; one whose external identifier differs
\* redirects (301) to the external-identifier URL, and the request that
\* follows that URL is answered with bytes or 404, not with another redirect.
C3_RedirectOnce ==
    /\ (Len(chain) = 1 /\ HasRecord(chain[1])) =>
          IF RecordOf(chain[1]).uniqueid_num = chain[1]
          THEN imgResp.status # 301
          ELSE /\ imgResp.status = 301
               /\ imgResp.location
                    = ImageUrlPrefix(imgResp.type) \o RecordOf(chain[1]).uniqueid_num
    /\ (Len(chain) = 2 /\ HasRecord(chain[1])) => imgResp.status \in {200, 404}

-----------------------------------------------------------------------------
(* Properties of the filter predicate *)

\* The fixed text a WHERE clause may be made of: one group per kind of filter,
\* with the number of placeholders it holds.
FixedGroups ==
    {[kind |-> "SearchTerm", n |-> 6,
      text |-> "(title LIKE ? OR plot LIKE ? OR director LIKE ? OR studio LIKE ? "
               \o "OR uniqueid_num LIKE ? OR actors LIKE ?)"],
     [kind |-> "uniqueid_num", n |-> 1, text |-> "uniqueid_num LIKE ?"],
     [kind |-> "ParentId", n |-> 1, text |-> "root_folder = ?"],
     [kind |-> "IncludeItemTypes", n |-> 0, text |-> "(set_name IS NULL OR set_name = '')"],
     [kind |-> "IncludeItemTypes", n |-> 0,
      text |-> "(set_name IS NOT NULL AND set_name != '')"],
     [kind |-> "personIds", n |-> 3,
      text |-> "(actors LIKE ? OR director = ? OR director LIKE ?)"],
     [kind |-> "studioIds", n |-> 1, text |-> "studio = ?"],
     [kind |-> "seriesName", n |-> 1, text |-> "set_name = ?"]}

BadGroup == [ok |-> FALSE, kind |-> "bad", n |-> 0, rest |-> ""]

\* the rest of a genre group after its first condition: more conditions
\* joined by OR, then the closing parenthesis
RECURSIVE GenreTail(_, _)
GenreTail(s, n) ==
    IF StartsWith(s, " OR genres LIKE ?") THEN GenreTail(Drop(s, 17), n + 1)
    ELSE IF StartsWith(s, ")") THEN [ok |-> TRUE, kind |-> "Genres", n |-> n, rest |-> Drop(s, 1)]
    ELSE BadGroup

\* the group a text starts with, and what follows it
FirstGroup(s) ==
    IF \E g \in FixedGroups : StartsWith(s, g.text)
    THEN LET g == CHOOSE g \in FixedGroups : StartsWith(s, g.text)
         IN  [ok |-> TRUE, kind |-> g.kind, n |-> g.n, rest |-> Drop(s, Len(g.text))]
    ELSE IF StartsWith(s, "(genres LIKE ?") THEN GenreTail(Drop(s, 14), 1)
    ELSE BadGroup

\* a clause read as groups joined by AND: the groups, with a "bad" entry
\* where the text is not of that form
RECURSIVE ParseClause(_)
ParseClause(s) ==
    LET g == FirstGroup(s)
        this == [kind |-> g.kind, n |-> g.n]
    IN  IF ~g.ok THEN <<this>>
        ELSE IF g.rest = "" THEN <<this>>
        ELSE IF StartsWith(g.rest, " AND ") THEN <<this>> \o ParseClause(Drop(g.rest, 5))
        ELSE <<this, [kind |-> "bad", n |-> 0]>>

WellFormed(groups) == \A i \in DOMAIN groups : groups[i].kind # "bad"

RECURSIVE SumN(_)
SumN(groups) == IF groups = <<>> THEN 0 ELSE Head(groups).n + SumN(Tail(groups))

\* the non-blank genres of a comma-separated list, trimmed, in order
RECURSIVE NonBlank(_)
NonBlank(tokens) ==
    IF tokens = <<>> THEN <<>>
    ELSE (IF trim(Head(tokens)) = "" THEN <<>> ELSE <<trim(Head(tokens))>>)
         \o NonBlank(Tail(tokens))
GenresOf(d) == IF Truthy(d, "Genres") THEN NonBlank(split(d["Genres"], ",")) ELSE <<>>

\* a key is supplied when the query has it with a non-empty value
Supplied(d) == SelectSeq(FilterKeys, LAMBDA k : Truthy(d, k))

\* a key yields a condition when it is supplied and, for IncludeItemTypes, its
\* value is Movie or Series and, for Genres, it has a non-blank genre
Yields(d, k) ==
    /\ Truthy(d, k)
    /\ k = "IncludeItemTypes" => d[k] \in {"Movie", "Series"}
    /\ k = "Genres" => GenresOf(d) # <<>>
Yielding(d) == SelectSeq(FilterKeys, LAMBDA k : Yields(d, k))

KindOf(k) == IF k \in {"uniqueid_num_fuzzy", "uniqueid_num_prefix"} THEN "uniqueid_num" ELSE k

\* the clause is the AND of one group for each key of keys, in order, and the
\* Genres group is the OR of one condition per genre
GroupsMatch(d, w, keys) ==
    LET groups == ParseClause(w.clause)
    IN  /\ WellFormed(groups)
        /\ Len(groups) = Len(keys)
        /\ \A i \in DOMAIN groups :
              /\ groups[i].kind = KindOf(keys[i])
              /\ groups[i].kind = "Genres" => groups[i].n = Len(GenresOf(d))

\* C4 as stated: "1=1" and no parameters when no filter key is supplied;
\* otherwise the AND of one group per supplied key, the Genres values forming
\* one OR group.
C4_AsStated ==
    built # NotBuilt =>
        IF Supplied(argsDict) = <<>>
        THEN built.clause = "1=1" /\ built.params = <<>>
        ELSE GroupsMatch(argsDict, built, Supplied(argsDict))

\* C4, amended: "1=1" and no parameters when no key yields a condition;
\* otherwise the AND of one group per yielding key, in the order of the
\* builder, the Genres group being the OR of one condition per non-blank genre.
C4_WhereClause ==
    built # NotBuilt =>
        IF Yielding(argsDict) = <<>>
        THEN built.clause = "1=1" /\ built.params = <<>>
        ELSE GroupsMatch(argsDict, built, Yielding(argsDict))

\* three filters at once, one of them a list of two genres
C4_Witness ==
    /\ built # NotBuilt
    /\ Len(GenresOf(argsDict)) = 2
    /\ Truthy(argsDict, "SearchTerm")
    /\ Truthy(argsDict, "studioIds")
    /\ Len(ParseClause(built.clause)) >= 3

\* the parameters a group of kind k binds, from the values of the query
ExpectedParams(d) ==
    (IF Truthy(d, "SearchTerm")
     THEN [i \in 1..6 |-> "%" \o d["SearchTerm"] \o "%"] ELSE <<>>)
    \o (IF Truthy(d, "uniqueid_num_fuzzy")
        THEN <<"%" \o d["uniqueid_num_fuzzy"] \o "%">> ELSE <<>>)
    \o (IF Truthy(d, "uniqueid_num_prefix") THEN <<d["uniqueid_num_prefix"] \o "%">> ELSE <<>>)
    \o [i \in 1..Len(GenresOf(d)) |-> "%\"" \o GenresOf(d)[i] \o "\"%"]
    \o (IF Truthy(d, "ParentId") THEN <<d["ParentId"]>> ELSE <<>>)
    \o (IF Truthy(d, "personIds")
        THEN <<"%\"name\":\"" \o d["personIds"] \o "\"%", d["personIds"],
               "%\"" \o d["personIds"] \o "\"%">>
        ELSE <<>>)
    \o (IF Truthy(d, "studioIds") THEN <<d["studioIds"]>> ELSE <<>>)
    \o (IF Truthy(d, "seriesName") THEN <<d["seriesName"]>> ELSE <<>>)

\* C5: the clause is made of the fixed fragments and '?' placeholders only,
\* it has as many placeholders as there are parameters, and the parameters are
\* the values of the conditions in the order of their placeholders.
C5_BoundParameters ==
    built # NotBuilt =>
        /\ built.clause = "1=1" \/ WellFormed(ParseClause(built.clause))
        /\ CountChar(built.clause, "?") = Len(built.params)
        /\ built.clause # "1=1" => SumN(ParseClause(built.clause)) = Len(built.params)
        /\ built.params = ExpectedParams(argsDict)

\* a search term made of SQL text and a genre were bound, not spliced in
C5_Witness ==
    /\ built # NotBuilt
    /\ Truthy(argsDict, "SearchTerm")
    /\ argsDict["SearchTerm"] = "x';--?"
    /\ GenresOf(argsDict) # <<>>
    /\ Len(built.params) >= 7

-----------------------------------------------------------------------------
(* Properties of like / unlike *)

\* C6: a like that was carried out leaves the flag of the movie it addressed
\* true whatever it was before and reports true, a like of an already-liked
\* movie leaves it true; an unlike leaves it false and reports false, and an
\* unlike of an already-unliked movie leaves it false.
C6_LikeIdempotent ==
    likeLast.movieId # 0 =>
        LET flag == movies[likeLast.movieId].is_liked
        IN  /\ likeLast.status \in {200, 500}
            /\ likeLast.status = 200 =>
                  /\ likeLast.reports
                  /\ likeLast.is_liked <=> (flag = 1)
                  /\ flag = IF likeLast.op = "like" THEN 1 ELSE 0
            /\ (likeLast.op = "like" /\ likeLast.before = 1) => flag = 1
            /\ (likeLast.op = "unlike" /\ likeLast.before = 0) => flag = 0
            /\ likeLast.status = 500 => flag = likeLast.before

\* an already-liked movie was liked again
C6_Witness ==
    /\ likeLast.op = "like"
    /\ likeLast.movieId # 0
    /\ likeLast.before = 1
    /\ likeLast.status = 200

-----------------------------------------------------------------------------
(* Properties of the item list *)

\* the rows the filter of the query selects
MatchingIds ==
    {i \in DOMAIN movies :
        "studioIds" \in DOMAIN itemsQuery.query => movies[i].studio = itemsQuery.query["studioIds"]}

\* the sort key of the query, and whether a row may come after another
SortKey(i) ==
    IF "SortBy" \in DOMAIN itemsQuery.query /\ itemsQuery.query["SortBy"] = "CommunityRating"
    THEN movies[i].rating ELSE movies[i].premiered
Descending ==
    "SortOrder" \notin DOMAIN itemsQuery.query \/ itemsQuery.query["SortOrder"] = "descending"
OutOfOrder(i, j) ==
    \/ SortKey(i) = NullNum /\ SortKey(j) # NullNum
    \/ /\ SortKey(i) # NullNum /\ SortKey(j) # NullNum
       /\ IF Descending THEN SortKey(i) < SortKey(j) ELSE SortKey(i) > SortKey(j)

RECURSIVE Concat(_)
Concat(ps) == IF ps = <<>> THEN <<>> ELSE Head(ps).Items \o Concat(Tail(ps))

\* a sequence of ids that is the whole sorted result: every matching row
\* once, no other row, no row before one that sorts ahead of it
FullSortedResult(ids) ==
    /\ Range(ids) = MatchingIds
    /\ Len(ids) = Cardinality(MatchingIds)
    /\ \A i, j \in DOMAIN ids : i < j => ~OutOfOrder(ids[i], ids[j])

AllPagesFetched == Len(pages) >= 1 /\ Len(pages) >= pages[1].TotalPages

\* C7 as stated: TotalPages is ceil(N / P), and the pages at StartIndex 0, P,
\* 2P, ... make up the full sorted result.
C7_AsStated ==
    Len(pages) >= 1 =>
        /\ pages[1].TotalPages = Ceil(Cardinality(MatchingIds), PageSizeOf(itemsQuery))
        /\ AllPagesFetched => FullSortedResult(Concat(pages))

\* C7, amended: TotalPages is ceil(N / P) when N >= 1; when N = 0 it is 1 in
\* src/movieApi.ts and 0 in the other version of the handler; the pages at
\* StartIndex 0, P, 2P, ... make up the full sorted result, each of at most P
\* records.
C7_Pagination ==
    Len(pages) >= 1 =>
        /\ pages[1].TotalPages
             = IF Cardinality(MatchingIds) >= 1
               THEN Ceil(Cardinality(MatchingIds), PageSizeOf(itemsQuery))
               ELSE itemsQuery.orElse
        /\ pages[1].TotalRecordCount = Cardinality(MatchingIds)
        /\ \A k \in DOMAIN pages : Len(pages[k].Items) <= PageSizeOf(itemsQuery)
        /\ AllPagesFetched => FullSortedResult(Concat(pages))

\* three matching records were fetched as two pages of two
C7_Witness ==
    /\ Len(pages) = 2
    /\ pages[1].TotalPages = 2
    /\ PageSizeOf(itemsQuery) = 2
    /\ Cardinality(MatchingIds) = 3
    /\ Len(pages[2].Items) = 1

-----------------------------------------------------------------------------
(* Properties of the related-items blend *)

RankedPrefix == SubSeq(relLast.items, 1, relLast.primaryLen)
DiscoverySuffix == SubSeq(relLast.items, relLast.primaryLen + 1, Len(relLast.items))

\* the movies recorded as genre_random_pick candidates of the source
GenreCandidates ==
    {r.related_movie_id : r \in {r \in prm : /\ r.source_movie_id = relLast.source
                                              /\ r.relation_type = "genre_random_pick"
                                              /\ r.related_movie_id \in DOMAIN movies}}

\* C8: no identifier of the discovery suffix occurs in the ranked prefix, the
\* suffix has at most NUM_RANDOM_GENRE_PICKS entries and no more entries than
\* there are distinct candidates outside the prefix.
C8_BlendSuffix ==
    relLast.status = 200 =>
        /\ Range(DiscoverySuffix) \cap Range(RankedPrefix) = {}
        /\ Len(DiscoverySuffix) <= NUM_RANDOM_GENRE_PICKS(env)
        /\ Len(DiscoverySuffix) <= Cardinality(GenreCandidates \ Range(RankedPrefix))
        /\ Range(DiscoverySuffix) \subseteq GenreCandidates

\* a candidate that was already in the prefix was passed over and another one
\* was appended
C8_Witness ==
    /\ relLast.status = 200
    /\ GenreCandidates \cap Range(RankedPrefix) # {}
    /\ Len(DiscoverySuffix) >= 1

\* C9: the blended list holds no identifier twice, its ranked prefix has at
\* most MAX_PRIMARY_RELATED entries and comes before every discovery entry.
C9_NoDuplicates ==
    relLast.status = 200 =>
        /\ \A i, j \in DOMAIN relLast.items : relLast.items[i] = relLast.items[j] => i = j
        /\ relLast.primaryLen <= MAX_PRIMARY_RELATED(env)
        /\ \A i \in DOMAIN relLast.items :
              i > relLast.primaryLen => relLast.items[i] \in GenreCandidates

-----------------------------------------------------------------------------
(* Properties of POST /movie_collections *)

NamesOf(rows) == {r.name : r \in rows}

-----------------------------------------------------------------------------
(* Properties of GET /items/:item_id_or_num *)

\* x names row i of table t: as its numeric id, or as its external identifier
NamesRow(t, i, x) ==
    \/ IsNumeric(x) /\ parseInt(x).v = t[i].id
    \/ t[i].uniqueid_num # NULL /\ t[i].uniqueid_num = x
MatchesNoMovie(t, x) == \A i \in DOMAIN t : ~NamesRow(t, i, x)

\* C11: GET /items/{x} for an x that matches no movie, neither as a numeric id
\* nor as an external identifier, answers 404 {error: "Movie not found"} and
\* maps no row.
C11_NotFound ==
    (detLast # NoDetail /\ MatchesNoMovie(movies, detLast.param))
        => /\ detLast.resp.status = 404
           /\ detLast.resp.error = "Movie not found"
           /\ ~detLast.resp.mapped

\* C20: whenever GET /items/{x} resolves x to a record, the record's id
\* written in decimal is x or its external identifier is x; an x that is
\* neither never resolves to the record whose id is the leading number of x.
C20_Resolution ==
    (detLast # NoDetail /\ detLast.resp.mapped)
        => \/ ToDecimal(detLast.resp.body.id) = detLast.param
           \/ /\ detLast.resp.body.uniqueid_num # NULL
              /\ detLast.resp.body.uniqueid_num = detLast.param

-----------------------------------------------------------------------------
(* Properties of the manga favourite flag *)

\* the boolean the body asks for, when the body is an object with one
FavoritedOf(body) == Member(JSONparse(body).v, "favorited")
AsksBoolean(body) == ~JSONparse(body).throws /\ IsBoolean(FavoritedOf(body))

\* C18: POST /manga_item/{id}/favorite sets is_favorited of manga id to the
\* boolean of the body and touches no other manga; a non-numeric id or a
\* non-boolean 'favorited' answers 400 and an unknown id 404, each with every
\* flag unchanged.
C18_FavoriteSet ==
    favLast # NoFav =>
        /\ (~IsNumeric(favLast.param) \/ ~AsksBoolean(favLast.body))
              => favLast.status = 400 /\ mangas = favLast.before
        /\ (/\ IsNumeric(favLast.param) /\ AsksBoolean(favLast.body)
            /\ parseInt(favLast.param).v \notin DOMAIN favLast.before)
              => favLast.status = 404 /\ mangas = favLast.before
        /\ favLast.status = 200
              => mangas = UpdateIsFavorited(favLast.before, parseInt(favLast.param).v,
                              IF FavoritedOf(favLast.body).s = "true" THEN 1 ELSE 0)

-----------------------------------------------------------------------------
(* Properties of the stream endpoint *)

\* the row of table t that x names
NamedRow(t, x) == t[CHOOSE i \in DOMAIN t : NamesRow(t, i, x)]

\* the first entry of a decoded stream list as a key: a string entry itself,
\* the url of an object entry; NULL when it yields none
EntryKey(entry) ==
    IF entry.t = "string" /\ entry.s # "" THEN entry.s
    ELSE IF entry.t = "object" /\ \E i \in 1..Len(entry.k) :
                entry.k[i] = "url" /\ entry.a[i].t = "string" /\ entry.a[i].s # ""
         THEN Member(entry, "url").s
    ELSE NULL

\* prefix and entry joined by one slash
JoinKey(prefix, entry) ==
    IF StartsWith(entry, "/") THEN prefix \o entry ELSE prefix \o "/" \o entry

\* what the claim expects of a request for x
ExpectedStream(e, t, b, x) ==
    IF MatchesNoMovie(t, x) THEN [status |-> 404, key |-> NULL]
    ELSE LET strm == NamedRow(t, x).strm_files
             list == parseJsonField(FieldValue(strm))
         IN  IF strm \in {NULL, ""} \/ Len(list) = 0 THEN [status |-> 404, key |-> NULL]
             ELSE IF EntryKey(list[1]) = NULL THEN [status |-> 404, key |-> NULL]
             ELSE IF ~e.MOVIES_BUCKET THEN [status |-> 500, key |-> NULL]
             ELSE LET key == JoinKey(e.MOVIE_ASSETS_R2_BASE_PREFIX, EntryKey(list[1]))
                  IN  [status |-> IF key \in b THEN 200 ELSE 404, key |-> key]

\* C19: GET /stream/{x} answers 404 when no movie matches x, when the movie has
\* no stream list, when the list is empty or when its first entry yields no
\* key; 500 when the storage binding is absent; otherwise it serves the object
\* at the base prefix joined with the first entry, or 404 when it is missing.
C19_StreamLadder ==
    streamLast # NoStream =>
        LET want == ExpectedStream(env, movies, bucket, streamLast.param)
        IN  /\ streamLast.resp.status = want.status
            /\ streamLast.resp.key = want.key

-----------------------------------------------------------------------------
(* Properties of the error and not-found handlers *)

\* C13: an exception a handler does not catch ends in a JSON body
\* {error, message} written by app.onError, which itself never fails; an
\* unmatched path ends in a 404, JSON when the path starts with /api and plain
\* text otherwise.
C13_CatchAll ==
    /\ errLast.op = "throw"
          => /\ errLast.resp # HandlerFailed
             /\ errLast.resp.kind = "json"
             /\ errLast.resp.error # NULL /\ errLast.resp.message # NULL
    /\ errLast.op = "unmatched"
          => /\ errLast.resp.status = 404
             /\ errLast.resp.kind = IF StartsWith(errLast.path, "/api") THEN "json" ELSE "text"

-----------------------------------------------------------------------------
(* Properties of parseJsonField *)

\* the pieces of s between commas, trimmed, the empty ones dropped
RECURSIVE TokensOf(_, _)
TokensOf(s, cur) ==
    IF s = "" THEN (IF trim(cur) = "" THEN <<>> ELSE <<JStr(trim(cur))>>)
    ELSE IF Char(s, 1) = ","
         THEN (IF trim(cur) = "" THEN <<>> ELSE <<JStr(trim(cur))>>) \o TokensOf(Rest(s), "")
         ELSE TokensOf(Rest(s), cur \o Char(s, 1))

\* C14: parseJsonField of the JSON encoding of a list is that list in the
\* same order; of an empty string, null or an absent value it is the empty
\* list; of a string that is not JSON it is the comma-separated tokens,
\* trimmed, without the empty ones; it returns a list for every input.
C14_ParseRoundTrip ==
    pjOut.done =>
        /\ pjIn.kind = "encoded" => pjOut.list = pjIn.list
        /\ pjIn.kind = "empty" => pjOut.list = <<>>
        /\ (pjIn.value.t = "string" /\ pjIn.value.s # "" /\ JSONparse(pjIn.value.s).throws)
              => pjOut.list = TokensOf(pjIn.value.s, "")
        /\ DOMAIN pjOut.list = 1..Len(pjOut.list)

\* a list with a padded element and an element with a comma went through
\* encoding and decoding
C14_Witness ==
    /\ pjOut.done
    /\ pjIn.kind = "encoded"
    /\ pjIn.list = <<JStr(" pad "), JStr("x,y")>>
    /\ pjOut.list = <<JStr(" pad "), JStr("x,y")>>

-----------------------------------------------------------------------------
(* Properties of movieRowToDict *)

EndsWith(s, suffix) ==
    Len(s) >= Len(suffix) /\ SubSeq(s, Len(s) - Len(suffix) + 1, Len(s)) = suffix

\* the key of the image URLs of a row: its id, else its external identifier
ImageKeyOf(row) == IF row.id # 0 THEN ToDecimal(row.id) ELSE row.uniqueid_num

\* ref is a URL of the image endpoint of the given type for the row
IsImageUrl(ref, imageType, row) ==
    /\ ImageKeyOf(row) # NULL
    /\ EndsWith(ref, "/api_movies/images/" \o imageType \o "/" \o ImageKeyOf(row))

\* C16: the record movieRowToDict returns holds no stored image path; its
\* image references are URLs of the image endpoints, keyed by the id of the
\* record when it has one and by its external identifier otherwise.
C16_NoStoragePath ==
    mapOut.done =>
        /\ \A col \in {"poster_file_path", "fanart_file_path"} :
              col \in DOMAIN mapOut.dict => mapOut.dict[col] \in {NULL, ""}
        /\ mapOut.dict.PrimaryImageTag # NULL
              => IsImageUrl(mapOut.dict.PrimaryImageTag, "poster", mapIn.row)
        /\ \A i \in 1..Len(mapOut.dict.BackdropImageTags) :
              IsImageUrl(mapOut.dict.BackdropImageTags[i], "fanart", mapIn.row)

\* C17: an actor entry of People carries an image URL only if table
\* actors_info holds a thumbnail record with the name of the actor.
C17_ActorThumb ==
    mapOut.done =>
        \A i \in 1..Len(mapOut.dict.People) :
            (mapOut.dict.People[i].Type = "Actor" /\ mapOut.dict.People[i].ImageTag # NULL)
                => mapOut.dict.People[i].Name \in mapIn.actors_info

-----------------------------------------------------------------------------
(* Properties of the concurrent row mappings *)

\* C15: the mappings of the rows complete in any order, yet the i-th item of
\* the response is the mapping of the i-th row the query returned.
C15_InputOrder ==
    itemsOut.sent =>
        /\ Len(itemsOut.Items) = Len(mapRows)
        /\ \A i \in 1..Len(mapRows) :
              itemsOut.Items[i].dict =
                  movieRowToDict(mapRows[i], CollectionsOf(mmc, mapRows[i].id))

\* three mappings completed in the reverse of the row order and the response
\* was sent
C15_Witness ==
    /\ itemsOut.sent
    /\ Len(mapRows) = 3
    /\ doneOrder = <<3, 2, 1>>
    /\ itemsOut.Items[1].dict.Id = mapRows[1].id

-----------------------------------------------------------------------------
(* Properties of the write frame *)

\* table t differs from table t0 at most in column col
SameBut(t, t0, col) ==
    /\ DOMAIN t = DOMAIN t0
    /\ \A i \in DOMAIN t : \A c \in DOMAIN t0[i] : c # col => t[i][c] = t0[i][c]

FrameInv ==
    /\ SameBut(movies, db0.movies, "is_liked")
    /\ SameBut(mangas, db0.mangas, "is_favorited")
    /\ db0.movie_collections \subseteq movie_collections
    /\ prm = db0.prm

GetKeepsDatabase == frameLast'.method = "GET" => Database' = Database

\* C12: after any sequence of requests the database differs from the initial
\* one only in is_liked of movies, is_favorited of mangas and added rows of
\* movie_collections; a GET request leaves the database as it is.
C12_WriteFrame == []FrameInv /\ [][GetKeepsDatabase]_vars

\* a like, a favourite and a new collection have been written, and a GET
\* request was served after them
C12_Witness ==
    /\ frameLast.method = "GET"
    /\ \E i \in DOMAIN movies : movies[i].is_liked # db0.movies[i].is_liked
    /\ \E i \in DOMAIN mangas : mangas[i].is_favorited # db0.mangas[i].is_favorited
    /\ movie_collections # db0.movie_collections

-----------------------------------------------------------------------------
(* Properties of the poster / fanart endpoint: missing records *)

\* the route parameter of the image request answered last
ImageAsked == chain[Len(chain)]

\* C21: a poster or fanart request for an identifier that matches no movie,
\* neither as a numeric id nor as an external identifier, answers 404, and
\* bytes are served only for an identifier that belongs to a movie.
C21_ImageNotFound ==
    Len(chain) >= 1 =>
        /\ MatchesNoMovie(movies, ImageAsked) => imgResp.status = 404
        /\ imgResp.status = 200 => ~MatchesNoMovie(movies, ImageAsked)

-----------------------------------------------------------------------------
(* Properties of the filter predicate over rows *)

\* the rows on which the condition of the key added last holds by itself
HoldsAlone ==
    RunWhere(movies,
             buildMovieWhereClauseAndParams((filtPrev.key :> filt[filtPrev.key]))).ids

\* C22: the rows matched by the predicate for a filter set plus one more key
\* are among the rows matched for the filter set, and when the condition of
\* the added key holds for every row no row is excluded.
C22_Narrowing ==
    filtPrev # NoPrev =>
        /\ ~matched.fails
        /\ matched.ids \subseteq filtPrev.hits
        /\ HoldsAlone = DOMAIN movies => matched.ids = filtPrev.hits

\* a third key was added, it excluded some of the rows matched before and
\* kept others
C22_Witness ==
    /\ Cardinality(DOMAIN filtPrev.filt) = 2
    /\ matched.ids # {}
    /\ matched.ids # filtPrev.hits
    /\ matched.ids \subseteq filtPrev.hits

-----------------------------------------------------------------------------
(* Properties of GET /items under failing backend calls *)

\* the call was issued and fails
Failed(call) ==
    \/ call.q = "count" /\ plan.count
    \/ call.q = "data" /\ plan.data
    \/ call.q = "collections" /\ call.row \in plan.members
SomeCallFailed == \E k \in DOMAIN calls : Failed(calls[k])

\* C23: when the count query, the data query or the membership query of a row
\* fails, the response of GET /items is a 500 JSON error without Items, and
\* no backend call is issued twice.
C23_NoPartialSuccess ==
    /\ (hpc = "answered" /\ SomeCallFailed) =>
          /\ itemsResp.status = 500
          /\ itemsResp.kind = "json"
          /\ "Items" \notin DOMAIN itemsResp
    /\ \A j, k \in DOMAIN calls : calls[j] = calls[k] => j = k

\* two mappings fulfilled, the membership query of the third row failed, and
\* the request was answered
C23_Witness ==
    /\ hpc = "answered"
    /\ Len(subs) = 3
    /\ subs[1] = "fulfilled" /\ subs[2] = "fulfilled" /\ subs[3] = "rejected"
    /\ Len(calls) = 5

-----------------------------------------------------------------------------
(* Properties of like / unlike: the write frame *)

\* a like or unlike request was served in this step: what it may write
LikeStepFrame ==
    LET found == Resolve(movies, likeLast'.param)
    IN  IF found.null
        THEN likeLast'.status = 404 /\ movies' = movies
        ELSE /\ likeLast'.movieId = found.row.id
             /\ likeLast'.status \in {200, 500}
             /\ SameBut(movies', movies, "is_liked")
             /\ \A i \in DOMAIN movies : i # found.row.id => movies'[i] = movies[i]

\* C24: a like or unlike request changes at most the is_liked flag of the one
\* record it resolved, also when other records share the external identifier
\* it asked for, and no other column or record; a request that resolves to no
\* record answers 404 and changes nothing.
C24_LikeFrame == [][LikeStepFrame]_vars

\* two records share the external identifier that was liked; the first was
\* written, the second kept its flag
C24_Witness ==
    /\ likeLast.op = "like" /\ likeLast.param = "ABC-1" /\ likeLast.status = 200
    /\ DOMAIN movies = {1, 2}
    /\ movies[1].uniqueid_num = "ABC-1" /\ movies[2].uniqueid_num = "ABC-1"
    /\ likeLast.before = 0
    /\ movies[1].is_liked = 1 /\ movies[2].is_liked = 0

-----------------------------------------------------------------------------
(* Properties of concurrent like / unlike *)

AllFinished == \A k \in DOMAIN likers : likers[k].pc = "done"

\* C25: however concurrent like and unlike requests on one movie interleave,
\* the stored is_liked is 0 or 1; once all have finished it is the value
\* written by the UPDATE that executed last; every response reports the value
\* of the request's own UPDATE.
C25_LastWriteWins ==
    /\ \A i \in DOMAIN movies : movies[i].is_liked \in {0, 1}
    /\ (AllFinished /\ lastUpdate # NullNum) => movies[1].is_liked = lastUpdate
    /\ \A k \in DOMAIN likers :
          likers[k].status = 200 => (likers[k].is_liked <=> likers[k].op = "like")

\* all requests have finished, one of them answered is_liked true, and the
\* stored flag is 0
C25_Witness ==
    /\ AllFinished
    /\ \E k \in DOMAIN likers : likers[k].status = 200 /\ likers[k].is_liked
    /\ movies[1].is_liked = 0
    /\ lastUpdate = 0

-----------------------------------------------------------------------------
(* Properties of sessions over time *)

\* C26: a token that a successful login issued is accepted by requireLogin on
\* every later request that presents it, whatever time has passed and however
\* many GET /logout requests were served in between.
C26_StatelessSession ==
    (authLast.op = "request" /\ authLast.token \in issued) =>
        /\ authLast.resp.handler # "none"
        /\ authLast.resp.status \notin {401, 307}

\* after two logouts and at a later time, the token of the first login was
\* presented again and the API answered
C26_Witness ==
    /\ authLast.op = "request"
    /\ authLast.path = "/api/mangas"
    /\ authLast.token \in issued
    /\ logouts = 2
    /\ authLast.at >= 2
    /\ authLast.resp.status = 200

\* the cookie the client holds once it has processed the last response
JarAfter == StoreCookie(authLast.token, authLast.resp)

\* C27 as stated: every GET /logout ends in a redirect to /login, and after
\* the response the client holds no auth_session cookie.
C27_AsStated ==
    (authLast.op = "request" /\ authLast.path = "/logout") =>
        /\ authLast.resp.kind = "redirect"
        /\ authLast.resp.location = "/login"
        /\ JarAfter = NoCookie

\* C27, amended: every GET /logout ends in a redirect to /login; after the
\* response the client holds no auth_session cookie, except that a cookie
\* sent with an empty value is left as it is.
C27_LogoutClears ==
    (authLast.op = "request" /\ authLast.path = "/logout") =>
        /\ authLast.resp.kind = "redirect"
        /\ authLast.resp.location = "/login"
        /\ JarAfter = IF authLast.token = EmptyCookie THEN EmptyCookie ELSE NoCookie

\* a logout that carried the token of a login was served by the logout
\* handler, and the jar is empty
C27_Witness ==
    /\ authLast.op = "request" /\ authLast.path = "/logout"
    /\ authLast.token \in issued
    /\ authLast.resp.handler = "logout"
    /\ authLast.resp.cookie = "delete"
    /\ jar = NoCookie

-----------------------------------------------------------------------------
(* Properties of the ORDER BY of GET /items *)

Whitelist ==
    {"title", "rating", "runtime", "premiered", "uniqueid_num", "last_scanned_date", "id"}

\* the keys the handler's sortMap knows
KnownSortKeys ==
    {"SortName", "Name", "DateCreated", "PremiereDate", "CommunityRating", "RunTimeTicks"}
        \cup (IF sortIn.withMovieCount THEN {"movieCount"} ELSE {})

\* two characters that are the same letter in either case, or equal
SameLetter(a, b) ==
    \/ a = b
    \/ \E i \in 1..Len(LowerCase) :
          {a, b} = {Char(LowerCase, i), Char(UpperCase, i)}
EqualsIgnoringCase(s, t) ==
    Len(s) = Len(t) /\ \A i \in 1..Len(s) : SameLetter(Char(s, i), Char(t, i))

SortByGiven == Truthy(sortIn.query, "SortBy")
SortOrderGiven == Truthy(sortIn.query, "SortOrder")

\* the column part of the claim: a whitelisted column stands in the text, and
\* it is premiered for a key the sortMap does not know
ColumnWhitelisted ==
    /\ sortOut.col \in Whitelist
    /\ \E d \in {"ASC", "DESC"} :
          sortOut.sql = "ORDER BY " \o sortOut.col \o " " \o d \o " NULLS LAST"
    /\ (SortByGiven /\ sortIn.query["SortBy"] \notin KnownSortKeys)
          => sortOut.col = "premiered"

\* C28 as stated: the column is whitelisted, premiered for unknown keys, and
\* the direction is DESC exactly when SortOrder equals 'descending' without
\* regard to case, ASC otherwise.
C28_AsStated ==
    sortOut # NotOrdered =>
        /\ ColumnWhitelisted
        /\ sortOut.dir = IF /\ "SortOrder" \in DOMAIN sortIn.query
                            /\ EqualsIgnoringCase(sortIn.query["SortOrder"], "descending")
                         THEN "DESC" ELSE "ASC"

\* C28, amended: the column is whitelisted, premiered for unknown keys; the
\* direction is DESC when SortOrder is absent or empty (the default
\* 'Descending' applies) or equals 'descending' without regard to case, and
\* ASC for every other value.
C28_OrderByWhitelist ==
    sortOut # NotOrdered =>
        /\ ColumnWhitelisted
        /\ sortOut.dir = IF \/ ~SortOrderGiven
                            \/ EqualsIgnoringCase(sortIn.query["SortOrder"], "descending")
                         THEN "DESC" ELSE "ASC"

\* a key that names a property every object inherits was sent with a mixed
\* case direction
C28_Witness ==
    /\ sortOut # NotOrdered
    /\ SortByGiven /\ sortIn.query["SortBy"] = "constructor"
    /\ SortOrderGiven /\ sortIn.query["SortOrder"] = "dEsCeNdInG"
    /\ sortOut.sql = "ORDER BY premiered DESC NULLS LAST"

-----------------------------------------------------------------------------
(* Properties of the appendix relation *)

IsAppendix(id) == mangas[id].is_appendix_to # NullNum
NonAppendixIds == {i \in DOMAIN mangas : ~IsAppendix(i)}
ListedIds(list) == {list[k].id : k \in DOMAIN list}
NoFilterGiven ==
    \A k \in {"search_term", "author", "collection_id"} : ~Truthy(mangaLast.query, k)

\* C29: GET /mangas never lists a manga whose is_appendix_to is not null,
\* whatever search, author, collection, sort and page parameters are given, and
\* its total_mangas counts non-appendix records only (all of them when no
\* filter is given); the appendices list of GET /manga_item/{id} holds exactly
\* the records whose is_appendix_to is id, so an appendix is listed under its
\* parent and nowhere else.
C29_AppendicesHidden ==
    /\ (mangaLast # <<>> /\ mangaLast.route = "/mangas" /\ mangaLast.resp.status = 200) =>
          /\ ListedIds(mangaLast.resp.mangas) \subseteq NonAppendixIds
          /\ mangaLast.resp.total_mangas <= Cardinality(NonAppendixIds)
          /\ NoFilterGiven => mangaLast.resp.total_mangas = Cardinality(NonAppendixIds)
    /\ (mangaLast # <<>> /\ mangaLast.route = "/mangas" /\ mangaLast.resp.status # 200) =>
          mangaLast.resp.mangas = <<>>
    /\ (mangaLast # <<>> /\ mangaLast.route = "/manga_item/:item_id") =>
          /\ ListedIds(mangaLast.resp.appendices) =
                IF mangaLast.resp.status = 200
                THEN {i \in DOMAIN mangas : mangas[i].is_appendix_to = mangaLast.resp.id}
                ELSE {}
          /\ Len(mangaLast.resp.appendices) = Cardinality(ListedIds(mangaLast.resp.appendices))

\* a listing without limit over a table with two appendices of the one
\* listed parent, one of which the search term matches
C29_Witness ==
    /\ mangaLast # <<>> /\ mangaLast.route = "/mangas" /\ mangaLast.resp.status = 200
    /\ Truthy(mangaLast.query, "search_term")
    /\ Truthy(mangaLast.query, "per_page") /\ mangaLast.query["per_page"] = "-1"
    /\ \E p \in ListedIds(mangaLast.resp.mangas) :
          /\ Cardinality({i \in DOMAIN mangas : mangas[i].is_appendix_to = p}) >= 2
          /\ \E i \in DOMAIN mangas :
                /\ mangas[i].is_appendix_to = p
                /\ MangasWhereAll(mangas[i], manga_collections, mangaLast.query)
    /\ mangaLast.resp.total_mangas = 1

-----------------------------------------------------------------------------
(* Specifications: one per subsystem, the other subsystems at rest *)

SpecAuth == AuthInit /\ [][AuthNext]_vars
SpecImage == ImageInit /\ [][ImageNext]_vars
SpecWhere == WhereInit /\ [][WhereNext]_vars
SpecLike == LikeInit /\ [][LikeNext]_vars
SpecItems == ItemsInit /\ [][ItemsNext]_vars
SpecRelated == RelatedInit /\ [][RelatedNext]_vars
SpecCollections == CollectionsInit /\ [][CollectionsNext]_vars
SpecDetail == DetailInit /\ [][DetailNext]_vars
SpecManga == MangaInit /\ [][MangaNext]_vars
SpecStream == StreamInit /\ [][StreamNext]_vars
SpecErrors == ErrorsInit /\ [][ErrorsNext]_vars
SpecParse == ParseInit /\ [][ParseNext]_vars
SpecMapping == MappingInit /\ [][MappingNext]_vars
SpecConcurrent == ConcInit /\ [][ConcNext]_vars
SpecFrame == FrameInit /\ [][FrameNext]_vars
SpecNarrow == NarrowInit /\ [][NarrowNext]_vars
SpecFailure == FailInit /\ [][FailNext]_vars
SpecRace == RaceInit /\ [][RaceNext]_vars
SpecSession == SessInit /\ [][SessNext]_vars
SpecSort == SortInit /\ [][SortNext]_vars
SpecAppendix == AppxInit /\ [][AppxNext]_vars

=============================================================================
